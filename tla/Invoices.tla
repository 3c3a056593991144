------------------------------ MODULE Invoices ------------------------------
(***************************************************************************)
(* A resident's booking that is paid for later: its invoices, the mails    *)
(* they leave in, and the sweep that marks it overdue (OperationsPayments: *)
(* invoice, sendInvoice, tick; OperationsBookings: change, mark-paid).     *)
(*                                                                         *)
(* A command is one step: store.command runs it in one transaction, once   *)
(* for its key.  A tick of the worker takes one step per command, per call *)
(* of the mail server and per write of the job, so that people and other   *)
(* workers act between any two; what it decided before a command is in     *)
(* "proc".  A tick can fail at every step, or die and leave its job        *)
(* leased; two minutes later another takes the job.                        *)
(*                                                                         *)
(* Abstractions: one booking, of a resident whose data are complete; its   *)
(* room, its hours and online payments that are under way are left to      *)
(* Bookings and OnlinePayments; a changed booking has any total; payers,   *)
(* issuers and recipients are left out; an unpaid booking of a guest gets  *)
(* its invoices by hand and is left out.                                   *)
(***************************************************************************)
EXTENDS Integers, Sequences

CONSTANTS
  Worker,      \* processes of the backend
  None,        \* no worker
  Methods,     \* ways of payment that are used
  MaxTotal,    \* bound: the price of the booking
  MaxEvents,   \* bound: what residents and administrators do
  MaxFaults    \* bound: ticks that fail or die

ASSUME InvoicesAssumption ==
  /\ None \notin Worker
  /\ Methods \subseteq {"cash", "invoice", "postpay", "card_online"}
  /\ {MaxTotal, MaxEvents, MaxFaults} \subseteq Nat

VARIABLES
  booking,    \* the row and the sum of its payments
  policy,     \* its payment_policy: "stage" is how late it is by its dates,
              \* "since" the revision in which these were set
  invoices,   \* the invoices of the booking; the position is the id
  jobs,       \* the outbox
  receipts,   \* keys of the commands of the worker that ran
  mails,      \* what left: the job, and the invoice as it was rendered
  prepay,     \* prepay_required of the profile
  late,       \* the booking was once unpaid after its postpay_due_at
  proc,       \* what every worker does
  events, faults

vars == <<booking, policy, invoices, jobs, receipts, mails, prepay, late,
          proc, events, faults>>

document == <<booking, policy, prepay, late>>
papers == <<invoices, mails>>

Manual == {"cash", "invoice", "postpay"}
Dated == {"invoice", "postpay"}

Outstanding ==
  IF booking.total > booking.paid THEN booking.total - booking.paid ELSE 0

(* paymentPolicy: the dates count from now. *)
PolicyOf(method, revision) ==
  IF method \in Dated
  THEN [kind |-> method, mark |-> "active", stage |-> "ahead", since |-> revision]
  ELSE [kind |-> "none", mark |-> "none", stage |-> "ahead", since |-> revision]

(* A row that waits for an invoice to be paid is not warned about. *)
NextStage(stage, kind) ==
  IF stage = "ahead" /\ kind = "postpay" THEN "warned" ELSE "past"

(* The stages that dates of a kind may have reached after a stage. *)
Reached(stage, kind) ==
  {stage, NextStage(stage, kind), NextStage(NextStage(stage, kind), kind)}

(* What a row is at a stage. *)
StateAt(stage) ==
  CASE stage = "past" -> "overdue"
    [] stage = "warned" -> "warning"
    [] OTHER -> "active"

StateOf(p) == StateAt(p.stage)

Unpaid(method) == IF method = "postpay" THEN "postpay" ELSE "unpaid"

(* Every command that writes the row increments its revision. *)
Save(b) == booking' = [b EXCEPT !.revision = @ + 1]

\* Variant: one key for all changes of the booking.
JobKeyOfBooking(what, n) == [what |-> what, n |-> IF what = "create" THEN 1 ELSE n]

JobKey(what, n) == [what |-> what, n |-> n]

(* A key that is already in the outbox adds nothing. *)
Enqueue(what, n, invoice, amount) ==
  LET key == JobKey(what, n)
  IN  IF \E j \in DOMAIN jobs : jobs[j].key = key THEN jobs
      ELSE Append(jobs, [key |-> key, invoice |-> invoice, amount |-> amount,
                         state |-> "pending", lease |-> None])

Idle == [at |-> "idle", job |-> 0, amount |-> 0, revision |-> 0, since |-> 0,
         kind |-> "none", stage |-> "ahead", mark |-> "none"]

(* Just created: by invoice, cash or afterwards, or paid online. *)
Init ==
  /\ \E method \in Methods, total \in 1 .. MaxTotal :
       /\ booking = [live |-> TRUE, total |-> total, method |-> method,
                     paid |-> IF method \in Manual THEN 0 ELSE total,
                     status |-> IF method \in Manual THEN Unpaid(method)
                                ELSE "paid",
                     invoice |-> 0, revision |-> 1]
       /\ policy = PolicyOf(method, 1)
       /\ jobs = IF method = "invoice"
                 THEN << [key |-> JobKey("create", 1), invoice |-> 0,
                          amount |-> 0, state |-> "pending", lease |-> None] >>
                 ELSE << >>
  /\ invoices = << >>
  /\ receipts = {}
  /\ mails = {}
  /\ prepay = FALSE
  /\ late = FALSE
  /\ proc = [w \in Worker |-> Idle]
  /\ events = 0
  /\ faults = 0

Happens == events < MaxEvents /\ events' = events + 1
Faulty == faults < MaxFaults /\ faults' = faults + 1

-----------------------------------------------------------------------------
(* Commands of people. *)

(* change: an edit, an extension or a transfer.  An invoice is asked for    *)
(* whenever money is due by invoice.                                        *)
Change(total, method) ==
  LET due == total > booking.paid
  IN  /\ booking.live
      /\ Happens
      /\ ~(prepay /\ method \in Manual)
      /\ due => method \in Manual
      /\ Save([booking EXCEPT !.total = total, !.method = method,
                 !.status = IF due THEN Unpaid(method) ELSE "paid"])
      /\ policy' = PolicyOf(method, booking.revision + 1)
      /\ jobs' = IF due /\ method = "invoice"
                 THEN Enqueue("create", booking.revision + 1, 0, 0) ELSE jobs
      /\ UNCHANGED <<papers, receipts, prepay, late, proc, faults>>

(* Whatever invoice is current counts as paid. *)
MarkPaid ==
  /\ booking.live
  /\ booking.method \in Manual
  /\ booking.status # "paid"
  /\ Happens
  /\ Save([booking EXCEPT !.paid = @ + Outstanding, !.status = "paid"])
  /\ invoices' = IF booking.invoice = 0 THEN invoices
                 ELSE [invoices EXCEPT ![booking.invoice].status = "paid"]
  /\ UNCHANGED <<policy, jobs, receipts, mails, prepay, late, proc, faults>>

Cancel ==
  /\ booking.live
  /\ Happens
  /\ Save([booking EXCEPT !.live = FALSE])
  /\ UNCHANGED <<policy, papers, jobs, receipts, prepay, late, proc, faults>>

\* Variant: an invoice is never replaced.
ReplacedIfNone == FALSE

(* The current invoice no longer asks for what is outstanding. *)
Replaced ==
  /\ Outstanding > 0
  /\ invoices[booking.invoice].amount # Outstanding

(* invoice: the current one is kept, or another is issued. *)
Issue ==
  IF booking.invoice # 0 /\ ~Replaced THEN UNCHANGED <<booking, invoices>>
  ELSE /\ invoices' = Append(invoices, [amount |-> Outstanding,
                                        status |-> "issued"])
       /\ Save([booking EXCEPT !.invoice = Len(invoices) + 1])

IssueByHand ==
  /\ booking.live
  /\ Happens
  /\ Issue
  /\ UNCHANGED <<policy, jobs, receipts, mails, prepay, late, proc, faults>>

(* sendInvoice: the job remembers which invoice was meant.  ("amount" is *)
(* what the administrator saw of it, for the properties.)                *)
SendInvoice ==
  /\ booking.invoice # 0
  /\ Happens
  /\ jobs' = Enqueue("send", Len(jobs) + 1, booking.invoice,
                     invoices[booking.invoice].amount)
  /\ UNCHANGED <<document, papers, receipts, proc, faults>>

TimePasses ==
  /\ policy.kind # "none" /\ policy.stage # "past"
  /\ policy' = [policy EXCEPT !.stage = NextStage(@, policy.kind)]
  /\ late' = (late \/ (policy'.stage = "past" /\ policy.kind = "postpay"
                       /\ booking.live /\ booking.status # "paid"))
  /\ UNCHANGED <<booking, papers, jobs, receipts, prepay, proc, events, faults>>

-----------------------------------------------------------------------------
(* tick: one job of the outbox, then the overdue sweep. *)

At(w, place) == proc[w].at = place
GoTo(w, place) == proc' = [proc EXCEPT ![w].at = place]

Claim(w, j) ==
  /\ At(w, "idle")
  /\ jobs[j].state \in {"pending", "overrun"}
  /\ jobs' = [jobs EXCEPT ![j].state = "running", ![j].lease = w]
  /\ proc' = [proc EXCEPT ![w].at = jobs[j].key.what, ![w].job = j]
  /\ UNCHANGED <<document, papers, receipts, events, faults>>

Receipt(key) == [key |-> key, mark |-> "none"]

(* The invoice of a cancelled booking is refused, again at every attempt. *)
Create(w) ==
  LET receipt == Receipt(jobs[proc[w].job].key)
  IN  /\ At(w, "create")
      /\ \/ /\ receipt \in receipts
            /\ GoTo(w, "done")
            /\ UNCHANGED <<booking, invoices, receipts>>
         \/ /\ receipt \notin receipts
            /\ booking.live
            /\ Issue
            /\ receipts' = receipts \cup {receipt}
            /\ GoTo(w, "done")
         \/ /\ receipt \notin receipts
            /\ ~booking.live
            /\ GoTo(w, "failed")
            /\ UNCHANGED <<booking, invoices, receipts>>
      /\ UNCHANGED <<policy, jobs, mails, prepay, late, events, faults>>

\* Variant: the invoice that is current when the mail is written.
CurrentInvoice(w) == booking.invoice

Chosen(w) == jobs[proc[w].job].invoice

(* invoicePdf, and the call of the mail server. *)
Render(w) ==
  /\ At(w, "send")
  /\ proc' = [proc EXCEPT ![w].at = "mail", ![w].amount = invoices[Chosen(w)].amount]
  /\ UNCHANGED <<document, papers, jobs, receipts, events, faults>>

Leaves(w) == mails \cup {[job |-> proc[w].job, amount |-> proc[w].amount]}

Mail(w) ==
  /\ At(w, "mail")
  /\ mails' = Leaves(w)
  /\ GoTo(w, "done")
  /\ UNCHANGED <<document, invoices, jobs, receipts, events, faults>>

(* The outcome is written only while the lease is this tick's. *)
Release(w, state) ==
  LET j == proc[w].job
  IN  /\ At(w, IF state = "done" THEN "done" ELSE "failed")
      /\ jobs' = IF jobs[j].lease # w THEN jobs
                 ELSE [jobs EXCEPT ![j].state = state, ![j].lease = None]
      /\ proc' = [proc EXCEPT ![w] = [Idle EXCEPT !.at = "sweep"]]
      /\ UNCHANGED <<document, papers, receipts, events, faults>>

\* Variant: a job that failed is not tried again.
GiveUp(w) ==
  LET j == proc[w].job
  IN  /\ At(w, "failed")
      /\ jobs' = IF jobs[j].lease # w THEN jobs
                 ELSE [jobs EXCEPT ![j].state = "done", ![j].lease = None]
      /\ proc' = [proc EXCEPT ![w] = [Idle EXCEPT !.at = "sweep"]]
      /\ UNCHANGED <<document, papers, receipts, events, faults>>

JobDone(w) == Release(w, "done")
JobFailed(w) == Release(w, "pending")

(* The rows that are looked at are all read first.  (No job may be due before: *)
(* one that failed waits for its retry_at.)                                    *)
Sweep(w) ==
  /\ At(w, "idle") \/ At(w, "sweep")
  /\ proc' = [proc EXCEPT ![w] =
       IF booking.live /\ booking.status # "paid" /\ policy.kind # "none"
       THEN [Idle EXCEPT !.at = "judge", !.revision = booking.revision,
                         !.since = policy.since, !.kind = policy.kind,
                         !.stage = policy.stage, !.mark = policy.mark]
       ELSE Idle]
  /\ UNCHANGED <<document, papers, jobs, receipts, events, faults>>

(* What the row is now, after the commands of the rows before it, by the dates *)
(* that were read: when others were set meanwhile, nobody knows how far time   *)
(* has passed these.                                                           *)
Judge(w) ==
  \E stage \in Reached(proc[w].stage, proc[w].kind) :
    /\ At(w, "judge")
    /\ proc[w].since = policy.since => stage = policy.stage
    /\ proc' = [proc EXCEPT ![w] =
         IF StateAt(stage) = proc[w].mark THEN Idle
         ELSE [proc[w] EXCEPT !.at = "policy", !.stage = "ahead", !.mark = StateAt(stage)]]
    /\ UNCHANGED <<document, papers, jobs, receipts, events, faults>>

\* Variant: any overdue booking costs the profile its postpayment.
BlocksAny(w) == proc[w].mark = "overdue"

Blocks(w) == proc[w].mark = "overdue" /\ proc[w].kind = "postpay"

\* Variant: the key of the command does not hold the revision.
DecisionOfState(w) ==
  [key |-> JobKey("policy", 0), mark |-> proc[w].mark]

Decision(w) ==
  [key |-> JobKey("policy", proc[w].revision), mark |-> proc[w].mark]

StatusOf(mark) ==
  CASE mark = "overdue" -> "overdue"
    [] mark = "warning" -> "postpay_warning"
    [] OTHER -> "postpay"

(* payment.policy: the row is read again, the decision is not made again. *)
Decide(w) ==
  /\ At(w, "policy")
  /\ IF \/ Decision(w) \in receipts
        \/ ~booking.live \/ booking.status = "paid"
     THEN UNCHANGED <<booking, policy, prepay>>
     ELSE /\ Save([booking EXCEPT !.status =
                     IF proc[w].kind = "postpay" THEN StatusOf(proc[w].mark)
                     ELSE @])
          /\ policy' = [policy EXCEPT !.mark = proc[w].mark]
          /\ prepay' = (prepay \/ Blocks(w))
  /\ receipts' = receipts \cup {Decision(w)}
  /\ proc' = [proc EXCEPT ![w] = Idle]
  /\ UNCHANGED <<late, papers, jobs, events, faults>>

-----------------------------------------------------------------------------
(* What goes wrong. *)

(* An error of the job is caught and recorded; any other ends the tick. *)
Fail(w) ==
  /\ ~At(w, "idle")
  /\ Faulty
  /\ IF proc[w].at \in {"create", "send", "mail", "done"}
     THEN GoTo(w, "failed") ELSE proc' = [proc EXCEPT ![w] = Idle]
  /\ mails' \in IF At(w, "mail") THEN {mails, Leaves(w)} ELSE {mails}
  /\ UNCHANGED <<document, invoices, jobs, receipts, events>>

Crash(w) ==
  /\ ~At(w, "idle")
  /\ Faulty
  /\ proc' = [proc EXCEPT ![w] = Idle]
  /\ mails' \in IF At(w, "mail") THEN {mails, Leaves(w)} ELSE {mails}
  /\ UNCHANGED <<document, invoices, jobs, receipts, events>>

(* Two minutes pass. *)
LeaseLapses(j) ==
  /\ jobs[j].state = "running"
  /\ jobs' = [jobs EXCEPT ![j].state = "overrun"]
  /\ UNCHANGED <<document, papers, receipts, proc, events, faults>>

-----------------------------------------------------------------------------
People ==
  \/ \E total \in 0 .. MaxTotal, method \in Methods : Change(total, method)
  \/ MarkPaid \/ Cancel \/ IssueByHand \/ SendInvoice

Step(w) ==
  \/ Create(w) \/ Render(w) \/ Mail(w) \/ JobDone(w) \/ JobFailed(w)
  \/ Sweep(w) \/ Judge(w) \/ Decide(w)

Next ==
  \/ People \/ TimePasses
  \/ \E w \in Worker : Step(w) \/ Fail(w) \/ Crash(w)
  \/ \E w \in Worker, j \in DOMAIN jobs : Claim(w, j)
  \/ \E j \in DOMAIN jobs : LeaseLapses(j)

(* A tick goes on and the next one comes; a job that is due again and again *)
(* is taken, the one that waited longest first; leases lapse.               *)
JobIds == 1 .. MaxEvents + 1

Fairness ==
  /\ \A w \in Worker : WF_vars(Step(w))
  /\ \A j \in JobIds :
       /\ SF_vars(j \in DOMAIN jobs /\ \E w \in Worker : Claim(w, j))
       /\ WF_vars(j \in DOMAIN jobs /\ LeaseLapses(j))

Spec == Init /\ [][Next]_vars /\ Fairness

-----------------------------------------------------------------------------
(* Properties. *)

Marks == {"none", "active", "warning", "overdue"}
Stages == {"ahead", "warned", "past"}
Booking == [live: BOOLEAN, total: Nat, paid: Nat, method: Methods,
            status: {"unpaid", "postpay", "postpay_warning", "overdue", "paid"},
            invoice: Nat, revision: Nat]
Invoice == [amount: Nat, status: {"issued", "paid"}]
Policy == [kind: Dated \cup {"none"}, mark: Marks,
           stage: Stages, since: Nat]
Key == [what: {"create", "send", "policy"}, n: Nat]
Job == [key: [what: {"create", "send"}, n: Nat], invoice: Nat, amount: Nat,
        state: {"pending", "running", "overrun", "done"},
        lease: Worker \cup {None}]
Proc == [at: {"idle", "create", "send", "mail", "done", "failed", "sweep", "judge",
              "policy"},
         job: Nat, amount: Nat, revision: Nat, since: Nat,
         kind: Dated \cup {"none"}, stage: Stages, mark: Marks]

(* Every document has its type, and what refers to an invoice or to a job *)
(* refers to one that exists (operations.payments.ts:553-727, 799-867).   *)
TypeOK ==
  /\ booking \in Booking
  /\ policy \in Policy
  /\ invoices \in Seq(Invoice)
  /\ jobs \in Seq(Job)
  /\ receipts \subseteq [key: Key, mark: Marks]
  /\ mails \subseteq [job: Nat, amount: Nat]
  /\ {prepay, late} \subseteq BOOLEAN
  /\ proc \in [Worker -> Proc]
  /\ {events, faults} \subseteq Nat
  /\ booking.invoice \in 0 .. Len(invoices)
  /\ \A j \in DOMAIN jobs :
       jobs[j].key.what = "send" => jobs[j].invoice \in DOMAIN invoices
  /\ \A w \in Worker :
       proc[w].at \in {"create", "send", "mail", "done", "failed"} =>
         proc[w].job \in DOMAIN jobs

(* Money is due by invoice. *)
Owed ==
  /\ booking.live /\ booking.method = "invoice"
  /\ booking.total > booking.paid

Asked ==
  /\ booking.invoice # 0
  /\ invoices[booking.invoice].amount = Outstanding

(* Of every sum that becomes due by invoice the customer is told: the      *)
(* current invoice asks for it, or a job is in the outbox whose command    *)
(* never ran, so that neither the keys of the jobs nor the receipts of the *)
(* commands swallow a change (operations.bookings.ts:1188-1194,            *)
(* operations.payments.ts:627-630).                                        *)
InvoiceComing ==
  Owed => \/ Asked
          \/ \E j \in DOMAIN jobs :
               /\ jobs[j].key.what = "create" /\ jobs[j].state # "done"
               /\ Receipt(jobs[j].key) \notin receipts

(* A job to send an invoice is done only when its mail has left            *)
(* (operations.payments.ts:833-867).                                       *)
MailComing ==
  \A j \in DOMAIN jobs :
    jobs[j].key.what = "send" /\ jobs[j].state = "done" =>
      \E m \in mails : m.job = j

(* A row whose mark is behind its date is marked by the next sweep: no     *)
(* command that ran, on this state of the row or an earlier one, has used  *)
(* up the key of that decision (operations.payments.ts:935-949).           *)
MarkComing ==
  booking.live /\ booking.status # "paid" /\ policy.mark # StateOf(policy) =>
    [key |-> JobKey("policy", booking.revision), mark |-> StateOf(policy)]
      \notin receipts

(* What is to come still comes, however keys and leases were used up.      *)
NothingLost == InvoiceComing /\ MailComing /\ MarkComing

(* ... and so the current invoice asks for it in the end, whatever fails   *)
(* and whichever workers overtake each other.                              *)
AmountSettles == <>[](Owed => Asked)

(* A mail shows the invoice it was queued with, as it was then, although   *)
(* the booking changed or got another invoice before it left: "The queue   *)
(* is bound to the number of the invoice, even if the booking changes      *)
(* later" (docs/OPERATIONS-MIGRATION.md:147, operations.payments.ts:833).  *)
MailIsAsChosen == \A m \in mails : m.amount = jobs[m.job].amount

(* ... and it leaves, whatever fails (operations.payments.ts:855-867).     *)
MailLeaves ==
  <>[](\A j \in DOMAIN jobs :
         jobs[j].key.what = "send" => \E m \in mails : m.job = j)

(* The booking was changed after the sweep read the row. *)
Overtaken(w) == At(w, "policy") /\ proc[w].since # policy.since

(* A profile has to pay in advance only when a postpaid booking of it was  *)
(* not paid by its last day, although the sweep decides on rows it read    *)
(* before, or when a change of the booking overtook the sweep, which goes  *)
(* on with the dates it read (operations.payments.ts:914-982).             *)
PrepayIsEarned ==
  [][~prepay /\ prepay' =>
       late \/ \E w \in Worker : Overtaken(w) /\ At(w, "idle")']_vars

(* What a row with a date is marked as follows its date in the end, also   *)
(* when a worker that decided on an earlier state of it writes last        *)
(* (operations.payments.ts:923-935).                                       *)
MarkSettles ==
  <>[](booking.live /\ booking.status # "paid" /\ policy.kind # "none"
         => policy.mark = StateOf(policy))

(* When all jobs are done, what is due by invoice is asked for by an       *)
(* invoice that is still to be paid: "for a supplementary payment choose   *)
(* cash or invoice" (operations.bookings.ts:1146).                         *)
AskedIsOpen ==
  Owed /\ (\A j \in DOMAIN jobs : jobs[j].state = "done") =>
    /\ booking.invoice # 0
    /\ invoices[booking.invoice].status = "issued"
=============================================================================
