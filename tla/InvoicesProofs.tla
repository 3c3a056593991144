--------------------------- MODULE InvoicesProofs ---------------------------
(***************************************************************************)
(* Proofs about Invoices, for any number of workers and any bounds.  The   *)
(* last part says when what is due is asked for by an open invoice: what   *)
(* MCInvoices_open.cfg refutes without that condition.                     *)
(***************************************************************************)
EXTENDS Invoices, TLAPS

-----------------------------------------------------------------------------
(* The inductive invariant *)

\* What a tick has in hand belongs to its job: a job is done only after its
\* command ran, and what is about to leave is the invoice that was meant.
TickOK(w) ==
  LET job == jobs[proc[w].job]
  IN  /\ proc[w].at \in {"create", "send"} => job.key.what = proc[w].at
      /\ proc[w].at = "mail" =>
           job.key.what = "send" /\ proc[w].amount = job.amount
      /\ proc[w].at = "done" /\ job.key.what = "create" =>
           Receipt(job.key) \in receipts

TicksOK == \A w \in Worker : TickOK(w)

\* A job to issue an invoice has the number of a revision the row has had,
\* and is done only with its receipt; invoices are never altered under a job
\* that sends them.
JobOK(j) ==
  /\ jobs[j].key.what = "create" =>
       /\ jobs[j].key.n <= booking.revision
       /\ jobs[j].state = "done" => Receipt(jobs[j].key) \in receipts
  /\ jobs[j].key.what = "send" =>
       jobs[j].amount = invoices[jobs[j].invoice].amount

JobsOK == \A j \in DOMAIN jobs : JobOK(j)

ReceiptsOK ==
  \A r \in receipts : r.key.what = "create" => r.key.n <= booking.revision

MailsOK == \A m \in mails : m.job \in DOMAIN jobs /\ m.amount = jobs[m.job].amount

\* What a sweep has in hand comes from dates that are set no later than those of
\* the row, and when they are the same it finds overdue only what is.
SweepOK(w) ==
  proc[w].at \in {"judge", "policy"} =>
    /\ proc[w].since <= policy.since
    /\ proc[w].since = policy.since =>
         /\ proc[w].kind = policy.kind
         /\ proc[w].at = "policy" /\ proc[w].mark = "overdue" => policy.stage = "past"

\* A postpaid booking past its last day is unpaid only when it was so before.
LateOK ==
  /\ policy.since <= booking.revision
  /\ policy.kind = "postpay" /\ policy.stage = "past"
       /\ booking.live /\ booking.status # "paid" => late
  /\ \A w \in Worker : SweepOK(w)

IInv ==
  /\ TypeOK /\ TicksOK /\ JobsOK /\ ReceiptsOK /\ MailsOK /\ LateOK
  /\ InvoiceComing

-----------------------------------------------------------------------------
(* Types *)

LEMMA OutstandingNat ==
  ASSUME TypeOK
  PROVE  Outstanding \in Nat
BY DEF TypeOK, Booking, Outstanding

\* "new" is the outbox with at most one job more, pending and of that key.
Grown(new, what, n, i, a) ==
  /\ new \in Seq(Job)
  /\ Len(jobs) <= Len(new)
  /\ \A j \in DOMAIN jobs : new[j] = jobs[j]
  /\ \A j \in DOMAIN new \ DOMAIN jobs :
       /\ new[j].key = [what |-> what, n |-> n]
       /\ new[j].invoice = i /\ new[j].amount = a
       /\ new[j].state = "pending"
  /\ (\A j \in DOMAIN jobs : jobs[j].key # JobKey(what, n)) =>
       Len(jobs) + 1 \in DOMAIN new

LEMMA EnqueueKeeps ==
  ASSUME TypeOK,
         NEW what \in {"create", "send"}, NEW n \in Nat, NEW i \in Nat, NEW a \in Nat,
         what = "send" => i \in DOMAIN invoices
  PROVE  Grown(Enqueue(what, n, i, a), what, n, i, a)
<1> DEFINE job == [key |-> JobKey(what, n), invoice |-> i, amount |-> a,
                   state |-> "pending", lease |-> None]
<1>1. /\ jobs \in Seq(Job) /\ job \in Job
      /\ job.key = [what |-> what, n |-> n]
      /\ job.invoice = i /\ job.amount = a /\ job.state = "pending"
  BY DEF TypeOK, Job, JobKey
<1> HIDE DEF job
<1>2. /\ Append(jobs, job) \in Seq(Job)
      /\ Len(jobs) <= Len(Append(jobs, job))
      /\ \A j \in DOMAIN jobs : Append(jobs, job)[j] = jobs[j]
      /\ \A j \in DOMAIN Append(jobs, job) \ DOMAIN jobs : Append(jobs, job)[j] = job
  BY <1>1
<1>3. /\ Enqueue(what, n, i, a) \in {jobs, Append(jobs, job)}
      /\ (\A j \in DOMAIN jobs : jobs[j].key # JobKey(what, n)) =>
           Enqueue(what, n, i, a) = Append(jobs, job)
  BY DEF Enqueue, job
<1>4. Len(jobs) + 1 \in DOMAIN Append(jobs, job)
  BY <1>1
<1> QED BY <1>1, <1>2, <1>3, <1>4 DEF Grown

\* A row that is saved has the next revision and is otherwise as it was given.
LEMMA SaveIs ==
  ASSUME NEW b \in Booking, Save(b)
  PROVE  /\ booking' \in Booking /\ booking'.revision = b.revision + 1
         /\ booking'.live = b.live /\ booking'.method = b.method
         /\ booking'.total = b.total /\ booking'.paid = b.paid
         /\ booking'.status = b.status /\ booking'.invoice = b.invoice
<1>1. booking' = [b EXCEPT !.revision = b.revision + 1]
  BY DEF Save
<1>2. b.revision + 1 \in Nat
  BY DEF Booking
<1> QED BY <1>1, <1>2 DEF Booking

\* An invoice is issued: the earlier ones stay, and what is due is asked for.
LEMMA IssueTypes ==
  ASSUME TypeOK, Issue
  PROVE  /\ booking' \in Booking
         /\ invoices' \in Seq(Invoice)
         /\ booking'.invoice \in 0 .. Len(invoices')
         /\ Len(invoices) <= Len(invoices')
         /\ \A i \in DOMAIN invoices : invoices'[i] = invoices[i]
         /\ booking'.live = booking.live /\ booking'.status = booking.status
         /\ booking.revision <= booking'.revision
         /\ Owed' <=> Owed
         /\ Owed => Asked'
<1> DEFINE new == [amount |-> Outstanding, status |-> "issued"]
<1>1. /\ booking \in Booking /\ booking.invoice \in 0 .. Len(invoices)
      /\ invoices \in Seq(Invoice)
      /\ new \in Invoice
  BY OutstandingNat DEF TypeOK, Invoice
<1>2. Owed => Outstanding > 0
  BY <1>1 DEF Owed, Outstanding, Booking
<1>3. CASE UNCHANGED <<booking, invoices>> /\ booking.invoice # 0 /\ ~Replaced
  <2>1. booking' = booking /\ invoices' = invoices
    BY <1>3
  <2>3. booking.revision \in Nat
    BY <1>1 DEF Booking
  <2>4. Outstanding' = Outstanding /\ (Owed' <=> Owed) /\ (Asked' <=> Asked)
    BY <2>1 DEF Outstanding, Owed, Asked
  <2>5. Owed => Asked
    BY <1>2, <1>3 DEF Replaced, Asked
  <2> QED BY <1>1, <2>1, <2>3, <2>4, <2>5
<1>4. CASE /\ invoices' = Append(invoices, new)
           /\ Save([booking EXCEPT !.invoice = Len(invoices) + 1])
  <2> HIDE DEF new
  <2> DEFINE b == [booking EXCEPT !.invoice = Len(invoices) + 1]
  <2>n. booking \in Booking /\ Len(invoices) + 1 \in Nat
    BY <1>1
  <2>0. /\ b \in Booking /\ b.invoice = Len(invoices) + 1
        /\ b.revision = booking.revision /\ b.status = booking.status
        /\ b.live = booking.live /\ b.method = booking.method
        /\ b.total = booking.total /\ b.paid = booking.paid
    BY <2>n DEF Booking
  <2> HIDE DEF b
  <2>1. /\ booking' \in Booking /\ booking'.invoice = Len(invoices) + 1
        /\ booking'.revision = booking.revision + 1
        /\ booking'.live = booking.live /\ booking'.method = booking.method
        /\ booking'.total = booking.total /\ booking'.paid = booking.paid
        /\ booking'.status = booking.status
    <3>1. Save(b)
      BY <1>4 DEF b
    <3> QED BY <2>0, <3>1, SaveIs
  <2>2. /\ invoices' \in Seq(Invoice)
        /\ Len(invoices') = Len(invoices) + 1
        /\ \A i \in DOMAIN invoices : invoices'[i] = invoices[i]
        /\ invoices'[Len(invoices) + 1] = new
    BY <1>1, <1>4
  <2>3. Outstanding' = Outstanding /\ (Owed' <=> Owed)
    BY <2>1 DEF Outstanding, Owed
  <2>4. Asked'
    BY <1>1, <2>1, <2>2, <2>3 DEF Asked, new
  <2> QED BY <1>1, <2>1, <2>2, <2>3, <2>4 DEF Booking
<1> QED BY <1>3, <1>4 DEF Issue

-----------------------------------------------------------------------------
(* Initial states *)

LEMMA InitOK == Init => IInv
<1> SUFFICES ASSUME Init PROVE IInv
  OBVIOUS
<1>1. PICK method \in Methods, total \in 1 .. MaxTotal :
        /\ booking = [live |-> TRUE, total |-> total, method |-> method,
                      paid |-> IF method \in Manual THEN 0 ELSE total,
                      status |-> IF method \in Manual THEN Unpaid(method)
                                 ELSE "paid",
                      invoice |-> 0, revision |-> 1]
        /\ policy = PolicyOf(method, 1)
        /\ jobs = IF method = "invoice"
                  THEN << [key |-> JobKey("create", 1), invoice |-> 0,
                           amount |-> 0, state |-> "pending", lease |-> None] >>
                  ELSE << >>
  BY DEF Init
<1>2. /\ invoices = << >> /\ receipts = {} /\ mails = {}
      /\ prepay = FALSE /\ late = FALSE
      /\ proc = [w \in Worker |-> Idle] /\ events = 0 /\ faults = 0
  BY DEF Init
<1>3. total \in Nat /\ total > 0
  BY InvoicesAssumption
<1>4. booking \in Booking
  BY <1>1, <1>3 DEF Booking, Unpaid, Manual
<1>5. policy \in Policy /\ policy.stage = "ahead" /\ policy.since = 1
  BY <1>1 DEF Policy, PolicyOf, Dated, Marks, Stages
<1>6. Idle \in Proc /\ Idle.at = "idle"
  BY DEF Idle, Proc, Marks, Stages
<1>7. /\ jobs \in Seq(Job)
      /\ \A j \in DOMAIN jobs :
           /\ jobs[j].key = [what |-> "create", n |-> 1]
           /\ jobs[j].state = "pending"
  <2> DEFINE job == [key |-> JobKey("create", 1), invoice |-> 0,
                     amount |-> 0, state |-> "pending", lease |-> None]
  <2>1. /\ job \in Job /\ job.key = [what |-> "create", n |-> 1]
        /\ job.state = "pending"
    BY DEF Job, JobKey
  <2>2. jobs = IF method = "invoice" THEN << job >> ELSE << >>
    BY <1>1
  <2> HIDE DEF job
  <2>3. CASE method = "invoice"
    BY <2>1, <2>2, <2>3
  <2>4. CASE method # "invoice"
    BY <2>1, <2>2, <2>4
  <2> QED BY <2>3, <2>4
<1>8. proc \in [Worker -> Proc] /\ \A w \in Worker : proc[w].at = "idle"
  BY <1>2, <1>6
<1>9. TypeOK
  <2>1. invoices \in Seq(Invoice)
        /\ booking.invoice \in 0 .. Len(invoices)
    BY <1>1, <1>2
  <2>2. /\ receipts \subseteq [key: Key, mark: Marks]
        /\ mails \subseteq [job: Nat, amount: Nat]
    BY <1>2
  <2>5. {prepay, late} \subseteq BOOLEAN /\ {events, faults} \subseteq Nat
    <3>1. prepay \in BOOLEAN /\ late \in BOOLEAN
      BY <1>2
    <3>2. events \in Nat /\ faults \in Nat
      BY <1>2
    <3> QED BY <3>1, <3>2
  <2>3. \A j \in DOMAIN jobs : jobs[j].key.what # "send"
    BY <1>7
  <2>4. \A w \in Worker :
          proc[w].at \notin {"create", "send", "mail", "done", "failed"}
    BY <1>8
  <2> QED BY <2>4, <2>5, <1>4, <1>5, <1>7, <1>8, <2>1, <2>2, <2>3 DEF TypeOK
<1>10. TicksOK
  BY <1>8 DEF TicksOK, TickOK
<1>11. JobsOK /\ ReceiptsOK /\ MailsOK /\ LateOK
  BY <1>1, <1>2, <1>5, <1>7, <1>8 DEF JobsOK, JobOK, ReceiptsOK, MailsOK, LateOK, SweepOK
<1>12. InvoiceComing
  <2> SUFFICES ASSUME Owed PROVE InvoiceComing
    BY DEF InvoiceComing
  <2>1. method = "invoice"
    BY <1>1 DEF Owed
  <2>2. 1 \in DOMAIN jobs
    BY <1>1, <2>1
  <2> QED BY <1>2, <1>7, <2>2 DEF InvoiceComing
<1> QED BY <1>9, <1>10, <1>11, <1>12 DEF IInv

-----------------------------------------------------------------------------
(* Commands of people *)

\* Commands that leave the outbox alone, and only add to the invoices.
LEMMA RowMoves ==
  ASSUME IInv,
         UNCHANGED <<jobs, receipts, mails, proc>>,
         booking.revision <= booking'.revision,
         booking' \in Booking,
         Len(invoices) <= Len(invoices'),
         \A i \in DOMAIN invoices : invoices'[i].amount = invoices[i].amount,
         invoices' \in Seq(Invoice)
  PROVE  TicksOK' /\ JobsOK' /\ ReceiptsOK' /\ MailsOK'
<1>1. /\ booking.revision \in Nat /\ booking'.revision \in Nat
      /\ jobs \in Seq(Job) /\ receipts \subseteq [key: Key, mark: Marks]
      /\ \A j \in DOMAIN jobs :
           jobs[j].key.what = "send" => jobs[j].invoice \in DOMAIN invoices
  BY DEF IInv, TypeOK, Booking
<1>2. TicksOK'
  BY DEF IInv, TicksOK, TickOK
<1>3. JobsOK'
  <2> SUFFICES ASSUME NEW j \in DOMAIN jobs PROVE JobOK(j)'
    BY DEF JobsOK
  <2>1. JobOK(j)
    BY DEF IInv, JobsOK
  <2>2. jobs[j] \in Job
    BY <1>1
  <2>3. jobs[j].key.n \in Nat
    BY <2>2 DEF Job
  <2> QED BY <1>1, <2>1, <2>3 DEF JobOK
<1>4. ReceiptsOK'
  <2> SUFFICES ASSUME NEW r \in receipts, r.key.what = "create"
               PROVE  r.key.n <= booking'.revision
    BY DEF ReceiptsOK
  <2>1. r.key.n \in Nat /\ r.key.n <= booking.revision
    BY <1>1 DEF IInv, ReceiptsOK, Key
  <2> QED BY <1>1, <2>1
<1>5. MailsOK'
  BY DEF IInv, MailsOK
<1> QED BY <1>2, <1>3, <1>4, <1>5

\* Commands that set no dates, and leave paid and cancelled what was.
LEMMA LateStays ==
  ASSUME IInv,
         booking' \in Booking, booking.revision <= booking'.revision,
         booking'.live /\ booking'.status # "paid" =>
           booking.live /\ booking.status # "paid",
         policy'.kind = policy.kind, policy'.stage = policy.stage,
         policy'.since = policy.since, late' = late,
         \A v \in Worker : \/ proc'[v] = proc[v]
                           \/ proc'[v].at \notin {"judge", "policy"}
                           \/ SweepOK(v)'
  PROVE  LateOK'
<1>1. /\ booking.revision \in Nat /\ booking'.revision \in Nat
      /\ policy.since \in Nat /\ policy.since <= booking.revision
      /\ policy.kind = "postpay" /\ policy.stage = "past"
           /\ booking.live /\ booking.status # "paid" => late
  BY DEF IInv, LateOK, TypeOK, Booking, Policy
<1>2. ASSUME NEW v \in Worker PROVE SweepOK(v)'
  <2>1. SweepOK(v)
    BY DEF IInv, LateOK
  <2> QED BY <2>1 DEF SweepOK
<1>3. policy'.since <= booking'.revision
  BY <1>1
<1> QED BY <1>1, <1>2, <1>3 DEF LateOK

LEMMA MarkPaidKeeps == IInv /\ MarkPaid => IInv'
<1> SUFFICES ASSUME IInv, MarkPaid PROVE IInv'
  OBVIOUS
<1> DEFINE b == [booking EXCEPT !.paid = @ + Outstanding, !.status = "paid"]
<1>1. /\ booking \in Booking /\ Outstanding \in Nat
      /\ booking.invoice \in 0 .. Len(invoices)
      /\ invoices \in Seq(Invoice)
  BY OutstandingNat DEF IInv, TypeOK
<1>2. /\ b \in Booking /\ b.invoice = booking.invoice /\ b.live = booking.live
      /\ b.revision = booking.revision /\ b.total <= b.paid /\ b.status = "paid"
  <2>1. /\ booking.total \in Nat /\ booking.paid \in Nat
        /\ booking.total <= booking.paid + Outstanding
    BY <1>1 DEF Booking, Outstanding
  <2>2. booking.paid + Outstanding \in Nat
    BY <1>1, <2>1
  <2>3. /\ b.paid = booking.paid + Outstanding /\ b.total = booking.total
        /\ b.invoice = booking.invoice /\ b.live = booking.live
        /\ b.revision = booking.revision /\ b.status = "paid"
    BY <1>1 DEF Booking
  <2>4. b \in Booking
    BY <1>1, <2>2 DEF Booking
  <2> QED BY <2>1, <2>3, <2>4
<1>3. Save(b) /\ UNCHANGED <<policy, jobs, receipts, mails, prepay, late, proc, faults>>
      /\ events' = events + 1
  BY DEF MarkPaid, Happens
<1> HIDE DEF b
<1>4. /\ booking' \in Booking /\ booking'.revision = booking.revision + 1
      /\ booking'.invoice = booking.invoice /\ booking'.total <= booking'.paid
      /\ booking'.status = "paid"
  BY <1>2, <1>3, SaveIs
<1>5. /\ invoices' \in Seq(Invoice)
      /\ Len(invoices') = Len(invoices)
      /\ \A i \in DOMAIN invoices : invoices'[i].amount = invoices[i].amount
  <2>1. CASE booking.invoice = 0
    BY <1>1, <2>1 DEF MarkPaid
  <2>2. CASE booking.invoice # 0
    <3>0. \A k \in DOMAIN invoices :
            invoices[k] \in Invoice
      BY <1>1
    <3> DEFINE i == booking.invoice
               new == [invoices[i] EXCEPT !.status = "paid"]
    <3>1. i \in DOMAIN invoices
      BY <1>1, <2>2
    <3>2. /\ new \in Invoice
          /\ new.amount = invoices[i].amount
      <4>1. invoices[i] \in Invoice
        BY <3>0, <3>1
      <4> HIDE DEF i
      <4> QED BY <4>1 DEF Invoice
    <3>3. invoices' = [invoices EXCEPT ![i] = new]
      BY <2>2 DEF MarkPaid
    <3> HIDE DEF new, i
    <3> QED BY <1>1, <3>1, <3>2, <3>3
  <2> QED BY <2>1, <2>2
<1>6. TypeOK'
  BY <1>1, <1>3, <1>4, <1>5 DEF IInv, TypeOK
<1>7. TicksOK' /\ JobsOK' /\ ReceiptsOK' /\ MailsOK'
  BY <1>1, <1>3, <1>4, <1>5, RowMoves DEF Booking
<1>8. LateOK'
  BY <1>1, <1>3, <1>4, LateStays DEF Booking
<1>9. InvoiceComing'
  BY <1>4 DEF InvoiceComing, Owed, Booking
<1> QED BY <1>6, <1>7, <1>8, <1>9 DEF IInv

LEMMA CancelKeeps == IInv /\ Cancel => IInv'
<1> SUFFICES ASSUME IInv, Cancel PROVE IInv'
  OBVIOUS
<1> DEFINE b == [booking EXCEPT !.live = FALSE]
<1>1. booking \in Booking /\ booking.invoice \in 0 .. Len(invoices)
      /\ invoices \in Seq(Invoice)
  BY DEF IInv, TypeOK
<1>2. /\ b \in Booking /\ b.invoice = booking.invoice /\ ~b.live
      /\ b.revision = booking.revision
  BY <1>1 DEF Booking
<1>3. Save(b) /\ UNCHANGED <<policy, papers, jobs, receipts, prepay, late, proc, faults>>
      /\ events' = events + 1
  BY DEF Cancel, Happens
<1> HIDE DEF b
<1>4. /\ booking' \in Booking /\ booking'.revision = booking.revision + 1
      /\ booking'.invoice = booking.invoice /\ ~booking'.live
  BY <1>2, <1>3, SaveIs
<1>5. TypeOK'
  BY <1>1, <1>3, <1>4 DEF IInv, TypeOK, papers
<1>6. TicksOK' /\ JobsOK' /\ ReceiptsOK' /\ MailsOK'
  BY <1>1, <1>3, <1>4, RowMoves DEF Booking, papers
<1>7. LateOK'
  BY <1>1, <1>3, <1>4, LateStays DEF Booking
<1>8. InvoiceComing'
  BY <1>4 DEF InvoiceComing, Owed
<1> QED BY <1>5, <1>6, <1>7, <1>8 DEF IInv

LEMMA IssueByHandKeeps == IInv /\ IssueByHand => IInv'
<1> SUFFICES ASSUME IInv, IssueByHand PROVE IInv'
  OBVIOUS
<1>1. /\ Issue /\ events' = events + 1
      /\ UNCHANGED <<policy, jobs, receipts, mails, prepay, late, proc, faults>>
      /\ TypeOK
  BY DEF IssueByHand, Happens, IInv
<1>2. /\ booking' \in Booking
      /\ invoices' \in Seq(Invoice)
      /\ booking'.invoice \in 0 .. Len(invoices')
      /\ Len(invoices) <= Len(invoices')
      /\ \A i \in DOMAIN invoices : invoices'[i] = invoices[i]
      /\ booking'.live = booking.live /\ booking'.status = booking.status
      /\ booking.revision <= booking'.revision
      /\ Owed' <=> Owed
      /\ Owed => Asked'
  BY <1>1, IssueTypes
<1>3. TypeOK'
  BY <1>1, <1>2 DEF TypeOK
<1>4. TicksOK' /\ JobsOK' /\ ReceiptsOK' /\ MailsOK'
  BY <1>1, <1>2, RowMoves
<1>5. LateOK'
  BY <1>1, <1>2, LateStays
<1>6. InvoiceComing'
  BY <1>2 DEF InvoiceComing
<1> QED BY <1>3, <1>4, <1>5, <1>6 DEF IInv

LEMMA TimePassesKeeps == IInv /\ TimePasses => IInv'
<1> SUFFICES ASSUME IInv, TimePasses PROVE IInv'
  OBVIOUS
<1>1. /\ policy \in Policy /\ booking \in Booking
      /\ invoices \in Seq(Invoice)
      /\ {late, prepay} \subseteq BOOLEAN
      /\ UNCHANGED <<booking, papers, jobs, receipts, prepay, proc, events, faults>>
  BY DEF IInv, TypeOK, TimePasses
<1>2. /\ policy' \in Policy /\ policy'.kind = policy.kind /\ policy.stage # "past"
      /\ policy'.since = policy.since
  BY <1>1 DEF TimePasses, Policy, NextStage, Stages
<1>3. /\ late' \in BOOLEAN
      /\ late => late'
      /\ policy'.stage = "past" /\ policy.kind = "postpay"
           /\ booking.live /\ booking.status # "paid" => late'
  BY <1>1 DEF TimePasses
<1>4. TypeOK'
  BY <1>1, <1>2, <1>3 DEF IInv, TypeOK, papers
<1>5. TicksOK' /\ JobsOK' /\ ReceiptsOK' /\ MailsOK'
  BY <1>1, RowMoves DEF papers, Booking
<1>6. LateOK'
  <2>1. \A v \in Worker : SweepOK(v)'
    BY <1>1, <1>2 DEF IInv, LateOK, SweepOK
  <2> QED BY <1>1, <1>2, <1>3, <2>1 DEF IInv, LateOK
<1>7. InvoiceComing'
  BY <1>1 DEF IInv, InvoiceComing, Owed, Asked, Outstanding, papers
<1> QED BY <1>4, <1>5, <1>6, <1>7 DEF IInv

\* Commands that put a job in the outbox.
LEMMA JobsGrow ==
  ASSUME IInv,
         UNCHANGED <<invoices, receipts, mails, proc>>,
         booking' \in Booking, booking.revision <= booking'.revision,
         jobs' \in Seq(Job),
         Len(jobs) <= Len(jobs'),
         \A j \in DOMAIN jobs : jobs'[j] = jobs[j],
         \A j \in DOMAIN jobs' \ DOMAIN jobs :
           /\ jobs'[j].state = "pending"
           /\ jobs'[j].key.what = "create" => jobs'[j].key.n <= booking'.revision
           /\ jobs'[j].key.what = "send" =>
                /\ jobs'[j].invoice \in DOMAIN invoices
                /\ jobs'[j].amount = invoices[jobs'[j].invoice].amount
  PROVE  /\ \A j \in DOMAIN jobs' :
              jobs'[j].key.what = "send" => jobs'[j].invoice \in DOMAIN invoices
         /\ TicksOK' /\ JobsOK' /\ ReceiptsOK' /\ MailsOK'
<1>1. /\ TypeOK /\ jobs \in Seq(Job) /\ mails \subseteq [job: Nat, amount: Nat]
      /\ booking.revision \in Nat /\ booking'.revision \in Nat
      /\ receipts \subseteq [key: Key, mark: Marks]
  BY DEF IInv, TypeOK, Booking
<1>4. DOMAIN jobs \subseteq DOMAIN jobs'
  BY <1>1
<1>5. \A j \in DOMAIN jobs' :
        jobs'[j].key.what = "send" => jobs'[j].invoice \in DOMAIN invoices
  <2> SUFFICES ASSUME NEW j \in DOMAIN jobs', jobs'[j].key.what = "send"
               PROVE  jobs'[j].invoice \in DOMAIN invoices
    OBVIOUS
  <2>1. CASE j \in DOMAIN jobs
    BY <1>1, <2>1 DEF TypeOK
  <2>2. CASE j \notin DOMAIN jobs
    BY <2>2
  <2> QED BY <2>1, <2>2
<1>6. TicksOK'
  <2> SUFFICES ASSUME NEW w \in Worker PROVE TickOK(w)'
    BY DEF TicksOK
  <2>1. TickOK(w)
    BY DEF IInv, TicksOK
  <2>2. CASE proc[w].at \in {"create", "send", "mail", "done", "failed"}
    <3>1. jobs'[proc[w].job] = jobs[proc[w].job]
      BY <1>1, <2>2 DEF TypeOK
    <3> QED BY <2>1, <3>1 DEF TickOK
  <2>3. CASE proc[w].at \notin {"create", "send", "mail", "done", "failed"}
    BY <2>3 DEF TickOK
  <2> QED BY <2>2, <2>3
<1>7. JobsOK'
  <2> SUFFICES ASSUME NEW j \in DOMAIN jobs' PROVE JobOK(j)'
    BY DEF JobsOK
  <2>1. CASE j \in DOMAIN jobs
    <3>1. JobOK(j) /\ jobs[j] \in Job /\ jobs'[j] = jobs[j]
      BY <1>1, <2>1 DEF IInv, JobsOK
    <3>2. jobs[j].key.n \in Nat
      BY <3>1 DEF Job
    <3> QED BY <1>1, <3>1, <3>2 DEF JobOK
  <2>2. CASE j \notin DOMAIN jobs
    BY <2>2 DEF JobOK
  <2> QED BY <2>1, <2>2
<1>8. ReceiptsOK'
  <2> SUFFICES ASSUME NEW r \in receipts, r.key.what = "create"
               PROVE  r.key.n <= booking'.revision
    BY DEF ReceiptsOK
  <2>1. r.key.n \in Nat /\ r.key.n <= booking.revision
    BY <1>1 DEF IInv, ReceiptsOK, Key
  <2> QED BY <1>1, <2>1
<1>9. MailsOK'
  BY <1>4 DEF IInv, MailsOK
<1> QED BY <1>5, <1>6, <1>7, <1>8, <1>9

LEMMA ChangeKeeps ==
  ASSUME IInv, NEW total \in 0 .. MaxTotal, NEW method \in Methods,
         Change(total, method)
  PROVE  IInv'
<1> DEFINE due == total > booking.paid
           n == booking.revision + 1
           status == IF due THEN Unpaid(method) ELSE "paid"
           b == [booking EXCEPT !.total = total, !.method = method,
                   !.status = status]
           asks == due /\ method = "invoice"
<1>1. /\ booking \in Booking /\ booking.paid \in Nat /\ booking.revision \in Nat
      /\ booking.invoice \in 0 .. Len(invoices) /\ n \in Nat
      /\ total \in Nat /\ TypeOK
  BY InvoicesAssumption DEF IInv, TypeOK, Booking
<1>2. status \in {"unpaid", "postpay", "paid"}
  BY DEF Unpaid
<1>3. /\ Save(b) /\ policy' = PolicyOf(method, n) /\ events' = events + 1
      /\ jobs' = IF asks THEN Enqueue("create", n, 0, 0) ELSE jobs
      /\ UNCHANGED <<invoices, mails, receipts, prepay, late, proc, faults>>
  BY DEF Change, Happens, papers
<1> HIDE DEF status
<1>4. /\ b \in Booking /\ b.invoice = booking.invoice /\ b.paid = booking.paid
      /\ b.total = total /\ b.method = method /\ b.revision = booking.revision
  BY <1>1, <1>2 DEF Booking
<1> HIDE DEF b
<1>5. /\ booking' \in Booking /\ booking'.revision = n
      /\ booking'.invoice = booking.invoice /\ booking'.paid = booking.paid
      /\ booking'.total = total /\ booking'.method = method
  BY <1>3, <1>4, SaveIs
<1>6. policy' \in Policy /\ policy'.stage = "ahead" /\ policy'.since = n
  BY <1>1, <1>3 DEF Policy, PolicyOf, Dated, Marks, Stages
<1>7. LateOK'
  <2>1. policy.since \in Nat /\ policy.since <= booking.revision
    BY <1>1 DEF IInv, LateOK, TypeOK, Policy
  <2>2. ASSUME NEW v \in Worker PROVE SweepOK(v)'
    <3>1. SweepOK(v) /\ proc[v].since \in Nat /\ proc'[v] = proc[v]
      BY <1>1, <1>3 DEF IInv, LateOK, TypeOK, Proc
    <3> QED BY <1>1, <1>6, <2>1, <3>1 DEF SweepOK
  <2> QED BY <1>1, <1>5, <1>6, <2>2 DEF LateOK
<1>8. CASE asks
  <2>1. jobs' = Enqueue("create", n, 0, 0)
    BY <1>3, <1>8
  <2>0. /\ jobs' \in Seq(Job)
        /\ Len(jobs) <= Len(jobs')
        /\ \A j \in DOMAIN jobs : jobs'[j] = jobs[j]
        /\ \A j \in DOMAIN jobs' \ DOMAIN jobs :
             jobs'[j].key = [what |-> "create", n |-> n]
               /\ jobs'[j].state = "pending"
    <3>1. Grown(jobs', "create", n, 0, 0)
      BY <1>1, <2>1, EnqueueKeeps
    <3> QED BY <3>1 DEF Grown
  <2>2. /\ \A j \in DOMAIN jobs' :
             jobs'[j].key.what = "send" => jobs'[j].invoice \in DOMAIN invoices
        /\ TicksOK' /\ JobsOK' /\ ReceiptsOK' /\ MailsOK'
    BY <1>1, <1>3, <1>5, <2>0, JobsGrow
  <2>3. TypeOK'
    BY <1>1, <1>3, <1>5, <1>6, <2>0, <2>2 DEF TypeOK
  <2>4. \A j \in DOMAIN jobs : jobs[j].key # JobKey("create", n)
    <3> SUFFICES ASSUME NEW j \in DOMAIN jobs, jobs[j].key = JobKey("create", n)
                 PROVE  FALSE
      OBVIOUS
    <3>1. JobOK(j)
      BY DEF IInv, JobsOK
    <3>2. n <= booking.revision
      BY <3>1 DEF JobOK, JobKey
    <3> QED BY <1>1, <3>2
  <2>5. /\ Len(jobs) + 1 \in DOMAIN jobs'
        /\ jobs'[Len(jobs) + 1].key = [what |-> "create", n |-> n]
        /\ jobs'[Len(jobs) + 1].state = "pending"
    <3>1. jobs \in Seq(Job) /\ Len(jobs) + 1 \notin DOMAIN jobs
      BY <1>1 DEF TypeOK
    <3>2. Len(jobs) + 1 \in DOMAIN jobs'
      <4>1. Grown(jobs', "create", n, 0, 0)
        BY <1>1, <2>1, EnqueueKeeps
      <4> QED BY <2>4, <4>1 DEF Grown
    <3> QED BY <2>0, <3>1, <3>2
  <2>6. Receipt(JobKey("create", n)) \notin receipts
    <3> SUFFICES ASSUME Receipt(JobKey("create", n)) \in receipts PROVE FALSE
      OBVIOUS
    <3>1. n <= booking.revision
      BY DEF IInv, ReceiptsOK, Receipt, JobKey
    <3> QED BY <1>1, <3>1
  <2>7. InvoiceComing'
    BY <1>3, <2>5, <2>6 DEF InvoiceComing, JobKey
  <2> QED BY <1>7, <2>2, <2>3, <2>7 DEF IInv
<1>9. CASE ~asks
  <2>1. jobs' = jobs
    BY <1>3, <1>9
  <2>2. TicksOK' /\ JobsOK' /\ ReceiptsOK' /\ MailsOK'
    BY <1>1, <1>3, <1>5, <2>1, RowMoves DEF TypeOK
  <2>3. TypeOK'
    BY <1>1, <1>3, <1>5, <1>6, <2>1 DEF TypeOK
  <2>4. ~Owed'
    BY <1>5, <1>9 DEF Owed
  <2> QED BY <1>7, <2>2, <2>3, <2>4 DEF IInv, InvoiceComing
<1> QED BY <1>8, <1>9

LEMMA SendInvoiceKeeps == IInv /\ SendInvoice => IInv'
<1> SUFFICES ASSUME IInv, SendInvoice PROVE IInv'
  OBVIOUS
<1> DEFINE n == Len(jobs) + 1
           i == booking.invoice
           a == invoices[i].amount
<1>1. /\ booking \in Booking /\ booking.revision \in Nat /\ i \in DOMAIN invoices
      /\ jobs \in Seq(Job) /\ n \in Nat /\ i \in Nat /\ TypeOK
  BY DEF IInv, TypeOK, Booking, SendInvoice
<1>2. a \in Nat
  <2>1. invoices[i] \in Invoice
    BY <1>1 DEF TypeOK
  <2> QED BY <2>1 DEF Invoice
<1>3. /\ jobs' = Enqueue("send", n, i, a) /\ events' = events + 1
      /\ UNCHANGED <<booking, policy, prepay, late, invoices, mails, receipts,
                     proc, faults>>
  BY DEF SendInvoice, Happens, document, papers
<1> HIDE DEF n, i, a
<1>0. /\ jobs' \in Seq(Job)
      /\ Len(jobs) <= Len(jobs')
      /\ \A j \in DOMAIN jobs : jobs'[j] = jobs[j]
      /\ \A j \in DOMAIN jobs' \ DOMAIN jobs :
           /\ jobs'[j].key = [what |-> "send", n |-> n]
           /\ jobs'[j].invoice = i /\ jobs'[j].amount = a
           /\ jobs'[j].state = "pending"
  <2>1. Grown(jobs', "send", n, i, a)
    BY <1>1, <1>2, <1>3, EnqueueKeeps
  <2> QED BY <2>1 DEF Grown
<1>4. /\ \A j \in DOMAIN jobs' :
           jobs'[j].key.what = "send" => jobs'[j].invoice \in DOMAIN invoices
      /\ TicksOK' /\ JobsOK' /\ ReceiptsOK' /\ MailsOK'
  <2>1. \A j \in DOMAIN jobs' \ DOMAIN jobs :
          /\ jobs'[j].key.what = "send" /\ jobs'[j].state = "pending"
          /\ jobs'[j].invoice \in DOMAIN invoices
          /\ jobs'[j].amount = invoices[jobs'[j].invoice].amount
    BY <1>0, <1>1 DEF i, a
  <2> QED BY <1>0, <1>1, <1>3, <2>1, JobsGrow
<1>5. TypeOK'
  BY <1>0, <1>1, <1>3, <1>4 DEF TypeOK
<1>6. LateOK'
  BY <1>1, <1>3, LateStays
<1>7. InvoiceComing'
  <2>1. (Owed' <=> Owed) /\ (Asked' <=> Asked)
    BY <1>3 DEF Owed, Asked, Outstanding
  <2>2. DOMAIN jobs \subseteq DOMAIN jobs'
    BY <1>0, <1>1
  <2> QED BY <1>0, <1>3, <2>1, <2>2 DEF IInv, InvoiceComing
<1> QED BY <1>4, <1>5, <1>6, <1>7 DEF IInv

-----------------------------------------------------------------------------
(* Ticks *)

\* Where a tick goes on, and that no other tick moves.
LEMMA GoToIs ==
  ASSUME TypeOK, NEW w \in Worker,
         NEW place \in {"create", "send", "mail", "done", "failed", "sweep"},
         GoTo(w, place)
  PROVE  /\ proc' \in [Worker -> Proc]
         /\ \A v \in Worker \ {w} : proc'[v] = proc[v]
         /\ proc'[w].at = place /\ proc'[w].job = proc[w].job
         /\ proc'[w].amount = proc[w].amount
<1>1. proc \in [Worker -> Proc] /\ proc[w] \in Proc
  BY DEF TypeOK
<1> DEFINE p == [proc[w] EXCEPT !.at = place]
<1>2. /\ p \in Proc /\ p.at = place /\ p.job = proc[w].job
      /\ p.amount = proc[w].amount
  BY <1>1 DEF Proc
<1>3. proc' = [proc EXCEPT ![w] = p]
  BY DEF GoTo
<1> HIDE DEF p
<1> QED BY <1>1, <1>2, <1>3

LEMMA ProcWrites ==
  ASSUME TypeOK, NEW w \in Worker, NEW p \in Proc,
         proc' = [proc EXCEPT ![w] = p]
  PROVE  /\ proc' \in [Worker -> Proc] /\ proc'[w] = p
         /\ \A v \in Worker \ {w} : proc'[v] = proc[v]
BY DEF TypeOK

\* A tick that is not moved holds what it held.
LEMMA TickStays ==
  ASSUME IInv, NEW v \in Worker, proc'[v] = proc[v],
         receipts \subseteq receipts',
         \A j \in DOMAIN jobs : /\ jobs'[j].key = jobs[j].key
                                /\ jobs'[j].amount = jobs[j].amount
  PROVE  TickOK(v)'
<1>1. TickOK(v)
  BY DEF IInv, TicksOK
<1>2. CASE proc[v].at \in {"create", "send", "mail", "done", "failed"}
  <2>1. proc[v].job \in DOMAIN jobs
    BY <1>2 DEF IInv, TypeOK
  <2>2. /\ jobs'[proc[v].job].key = jobs[proc[v].job].key
        /\ jobs'[proc[v].job].amount = jobs[proc[v].job].amount
    BY <2>1
  <2> QED BY <1>1, <2>2 DEF TickOK, Receipt
<1>3. CASE proc[v].at \notin {"create", "send", "mail", "done", "failed"}
  BY <1>3 DEF TickOK
<1> QED BY <1>2, <1>3

\* A job is leased, released or overrun; nothing else of it changes.
LEMMA JobMoves ==
  ASSUME IInv,
         UNCHANGED <<document, papers, receipts>>,
         jobs' \in Seq(Job), DOMAIN jobs' = DOMAIN jobs,
         \A j \in DOMAIN jobs :
           /\ jobs'[j].key = jobs[j].key
           /\ jobs'[j].invoice = jobs[j].invoice
           /\ jobs'[j].amount = jobs[j].amount
           /\ jobs'[j].key.what = "create" /\ jobs'[j].state = "done" =>
                Receipt(jobs[j].key) \in receipts
  PROVE  /\ \A j \in DOMAIN jobs' :
              jobs'[j].key.what = "send" => jobs'[j].invoice \in DOMAIN invoices
         /\ JobsOK' /\ ReceiptsOK' /\ MailsOK' /\ InvoiceComing'
<1>1. /\ jobs \in Seq(Job)
      /\ \A j \in DOMAIN jobs :
           jobs[j].key.what = "send" => jobs[j].invoice \in DOMAIN invoices
      /\ UNCHANGED <<booking, invoices, mails>>
  BY DEF IInv, TypeOK, document, papers
<1>2. JobsOK'
  <2> SUFFICES ASSUME NEW j \in DOMAIN jobs PROVE JobOK(j)'
    BY DEF JobsOK
  <2>1. JobOK(j)
    BY DEF IInv, JobsOK
  <2> QED BY <1>1, <2>1 DEF JobOK
<1>3. ReceiptsOK' /\ MailsOK'
  BY <1>1 DEF IInv, ReceiptsOK, MailsOK
<1>4. InvoiceComing'
  <2>1. (Owed' <=> Owed) /\ (Asked' <=> Asked)
    BY <1>1 DEF Owed, Asked, Outstanding
  <2> SUFFICES ASSUME Owed, ~Asked PROVE InvoiceComing'
    BY <2>1 DEF InvoiceComing
  <2>2. PICK j \in DOMAIN jobs :
          /\ jobs[j].key.what = "create" /\ jobs[j].state # "done"
          /\ Receipt(jobs[j].key) \notin receipts
    BY DEF IInv, InvoiceComing
  <2>3. /\ jobs'[j].key = jobs[j].key /\ jobs'[j].state # "done"
        /\ j \in DOMAIN jobs'
    BY <2>2
  <2> QED BY <2>2, <2>3 DEF InvoiceComing
<1> QED BY <1>1, <1>2, <1>3, <1>4

LEMMA ClaimKeeps ==
  ASSUME IInv, NEW w \in Worker, NEW j \in DOMAIN jobs, Claim(w, j)
  PROVE  IInv'
<1> DEFINE what == jobs[j].key.what
           job == [jobs[j] EXCEPT !.state = "running", !.lease = w]
           p == [proc[w] EXCEPT !.at = what, !.job = j]
<1>1. /\ jobs \in Seq(Job) /\ jobs[j] \in Job /\ j \in Nat /\ TypeOK
      /\ proc \in [Worker -> Proc] /\ proc[w] \in Proc
  BY DEF IInv, TypeOK
<1>2. what \in {"create", "send"}
  BY <1>1 DEF Job
<1>3. /\ job \in Job /\ job.key = jobs[j].key /\ job.invoice = jobs[j].invoice
      /\ job.amount = jobs[j].amount /\ job.state = "running"
  BY <1>1 DEF Job
<1>4. p \in Proc /\ p.at = what /\ p.job = j
  BY <1>1, <1>2 DEF Proc
<1>5. /\ jobs' = [jobs EXCEPT ![j] = job] /\ proc' = [proc EXCEPT ![w] = p]
      /\ UNCHANGED <<document, papers, receipts, events, faults>>
  BY DEF Claim
<1>6. JobOK(j)
  BY DEF IInv, JobsOK
<1> HIDE DEF job, p, what
<1>7. /\ jobs' \in Seq(Job) /\ DOMAIN jobs' = DOMAIN jobs
      /\ jobs'[j] = job
      /\ \A k \in DOMAIN jobs : k # j => jobs'[k] = jobs[k]
  BY <1>1, <1>3, <1>5
<1>8. /\ proc' \in [Worker -> Proc] /\ proc'[w] = p
      /\ \A v \in Worker \ {w} : proc'[v] = proc[v]
  BY <1>1, <1>4, <1>5, ProcWrites
<1>9. \A k \in DOMAIN jobs :
        /\ jobs'[k].key = jobs[k].key
        /\ jobs'[k].invoice = jobs[k].invoice
        /\ jobs'[k].amount = jobs[k].amount
        /\ jobs'[k].key.what = "create" /\ jobs'[k].state = "done" =>
             Receipt(jobs[k].key) \in receipts
  BY <1>3, <1>7 DEF IInv, JobsOK, JobOK
<1>10. /\ \A k \in DOMAIN jobs' :
            jobs'[k].key.what = "send" => jobs'[k].invoice \in DOMAIN invoices
       /\ JobsOK' /\ ReceiptsOK' /\ MailsOK' /\ InvoiceComing'
  BY <1>5, <1>7, <1>9, JobMoves
<1>11. TypeOK'
  BY <1>4, <1>5, <1>7, <1>8, <1>10 DEF IInv, TypeOK, document, papers
<1>12. TicksOK'
  <2> SUFFICES ASSUME NEW v \in Worker PROVE TickOK(v)'
    BY DEF TicksOK
  <2>1. CASE v = w
    BY <1>2, <1>3, <1>4, <1>7, <1>8, <2>1 DEF TickOK, what
  <2>2. CASE v # w
    BY <1>5, <1>8, <1>9, <2>2, TickStays
  <2> QED BY <2>1, <2>2
<1>13. LateOK'
  <2>1. p.at \notin {"judge", "policy"}
    BY <1>2, <1>4
  <2>2. booking \in Booking /\ booking.revision \in Nat
    BY <1>1 DEF TypeOK, Booking
  <2> QED BY <1>5, <1>8, <2>1, <2>2, LateStays DEF document
<1> QED BY <1>10, <1>11, <1>12, <1>13 DEF IInv

LEMMA LeaseLapsesKeeps ==
  ASSUME IInv, NEW j \in DOMAIN jobs, LeaseLapses(j)
  PROVE  IInv'
<1> DEFINE job == [jobs[j] EXCEPT !.state = "overrun"]
<1>1. jobs \in Seq(Job) /\ jobs[j] \in Job /\ TypeOK
  BY DEF IInv, TypeOK
<1>2. /\ job \in Job /\ job.key = jobs[j].key /\ job.invoice = jobs[j].invoice
      /\ job.amount = jobs[j].amount /\ job.state = "overrun"
  BY <1>1 DEF Job
<1>3. /\ jobs' = [jobs EXCEPT ![j] = job]
      /\ UNCHANGED <<document, papers, receipts, proc, events, faults>>
  BY DEF LeaseLapses
<1> HIDE DEF job
<1>4. /\ jobs' \in Seq(Job) /\ DOMAIN jobs' = DOMAIN jobs
      /\ jobs'[j] = job
      /\ \A k \in DOMAIN jobs : k # j => jobs'[k] = jobs[k]
  BY <1>1, <1>2, <1>3
<1>5. \A k \in DOMAIN jobs :
        /\ jobs'[k].key = jobs[k].key
        /\ jobs'[k].invoice = jobs[k].invoice
        /\ jobs'[k].amount = jobs[k].amount
        /\ jobs'[k].key.what = "create" /\ jobs'[k].state = "done" =>
             Receipt(jobs[k].key) \in receipts
  BY <1>2, <1>4 DEF IInv, JobsOK, JobOK
<1>6. /\ \A k \in DOMAIN jobs' :
           jobs'[k].key.what = "send" => jobs'[k].invoice \in DOMAIN invoices
      /\ JobsOK' /\ ReceiptsOK' /\ MailsOK' /\ InvoiceComing'
  BY <1>3, <1>4, <1>5, JobMoves
<1>7. TypeOK'
  BY <1>3, <1>4, <1>6 DEF IInv, TypeOK, document, papers
<1>8. TicksOK'
  BY <1>3, <1>5, TickStays DEF TicksOK
<1>9. LateOK'
  <2>1. booking \in Booking /\ booking.revision \in Nat
    BY <1>1 DEF TypeOK, Booking
  <2> QED BY <1>3, <2>1, LateStays DEF document
<1> QED BY <1>6, <1>7, <1>8, <1>9 DEF IInv

\* A tick that issues an invoice or finds that it did so before.
LEMMA CreateKeeps ==
  ASSUME IInv, NEW w \in Worker, Create(w)
  PROVE  IInv'
<1> DEFINE key == jobs[proc[w].job].key
           r == Receipt(key)
<1>1. /\ TypeOK /\ jobs \in Seq(Job) /\ booking \in Booking
      /\ booking.revision \in Nat /\ proc[w].job \in DOMAIN jobs
      /\ booking.invoice \in 0 .. Len(invoices) /\ invoices \in Seq(Invoice)
      /\ receipts \subseteq [key: Key, mark: Marks]
  BY DEF IInv, TypeOK, Booking, Create, At
<1>2. key.what = "create" /\ key.n \in Nat /\ key.n <= booking.revision
  <2>1. TickOK(w) /\ JobOK(proc[w].job) /\ jobs[proc[w].job] \in Job
    BY <1>1 DEF IInv, TicksOK, JobsOK
  <2>2. key.what = "create"
    BY <2>1 DEF TickOK, Create, At
  <2> QED BY <2>1, <2>2 DEF JobOK, Job
<1>3. r \in [key: Key, mark: Marks] /\ r.key = key
  <2>1. jobs[proc[w].job] \in Job
    BY <1>1
  <2>2. key \in Key
    BY <2>1 DEF Job, Key
  <2> QED BY <2>2 DEF Receipt, Marks
<1>4. UNCHANGED <<policy, jobs, mails, prepay, late, events, faults>>
  BY DEF Create
<1>5. PICK place \in {"done", "failed"} :
        /\ GoTo(w, place)
        /\ \/ UNCHANGED <<booking, invoices>>
           \/ Issue
        /\ \/ receipts' = receipts
           \/ receipts' = receipts \cup {r} /\ Issue
        /\ place = "done" => r \in receipts'
  BY DEF Create
<1>6. /\ proc' \in [Worker -> Proc]
      /\ \A v \in Worker \ {w} : proc'[v] = proc[v]
      /\ proc'[w].at = place /\ proc'[w].job = proc[w].job
  BY <1>1, <1>5, GoToIs
<1>7. /\ booking' \in Booking /\ invoices' \in Seq(Invoice)
      /\ booking'.invoice \in 0 .. Len(invoices')
      /\ Len(invoices) <= Len(invoices')
      /\ \A i \in DOMAIN invoices : invoices'[i] = invoices[i]
      /\ booking'.live = booking.live /\ booking'.status = booking.status
      /\ booking.revision <= booking'.revision
      /\ Owed' <=> Owed
  <2>1. CASE UNCHANGED <<booking, invoices>>
    BY <1>1, <2>1 DEF Owed
  <2>2. CASE Issue
    BY <1>1, <2>2, IssueTypes
  <2> QED BY <1>5, <2>1, <2>2
<1>8. receipts \subseteq receipts' /\ receipts' \subseteq receipts \cup {r}
  BY <1>5
<1> HIDE DEF r
<1>9. TypeOK'
  <2>1. receipts' \subseteq [key: Key, mark: Marks]
    BY <1>1, <1>3, <1>8
  <2>2. \A j \in DOMAIN jobs :
          jobs[j].key.what = "send" => jobs[j].invoice \in DOMAIN invoices'
    BY <1>1, <1>7 DEF TypeOK
  <2>3. \A v \in Worker :
          proc'[v].at \in {"create", "send", "mail", "done", "failed"} =>
            proc'[v].job \in DOMAIN jobs
    BY <1>1, <1>6 DEF TypeOK
  <2> QED BY <1>1, <1>4, <1>6, <1>7, <2>1, <2>2, <2>3 DEF TypeOK
<1>10. TicksOK'
  <2> SUFFICES ASSUME NEW v \in Worker PROVE TickOK(v)'
    BY DEF TicksOK
  <2>1. CASE v = w
    BY <1>4, <1>5, <1>6, <2>1 DEF TickOK, r
  <2>2. CASE v # w
    BY <1>4, <1>6, <1>8, <2>2, TickStays
  <2> QED BY <2>1, <2>2
<1>11. JobsOK'
  <2> SUFFICES ASSUME NEW j \in DOMAIN jobs PROVE JobOK(j)'
    BY <1>4 DEF JobsOK
  <2>1. JobOK(j)
    BY DEF IInv, JobsOK
  <2>2. jobs[j] \in Job
    BY <1>1
  <2>3. jobs[j].key.n \in Nat /\ booking'.revision \in Nat
    BY <1>7, <2>2 DEF Job, Booking
  <2>4. jobs[j].key.what = "send" =>
          invoices'[jobs[j].invoice] = invoices[jobs[j].invoice]
    BY <1>1, <1>7 DEF TypeOK
  <2> QED BY <1>1, <1>4, <1>7, <1>8, <2>1, <2>3, <2>4 DEF JobOK
<1>12. ReceiptsOK'
  <2> SUFFICES ASSUME NEW q \in receipts', q.key.what = "create"
               PROVE  q.key.n <= booking'.revision
    BY DEF ReceiptsOK
  <2>0. booking'.revision \in Nat
    BY <1>7 DEF Booking
  <2>1. CASE q \in receipts
    <3>1. q.key.n \in Nat /\ q.key.n <= booking.revision
      BY <1>1, <2>1 DEF IInv, ReceiptsOK, Key
    <3> QED BY <1>1, <1>7, <2>0, <3>1
  <2>2. CASE q = r
    BY <1>1, <1>2, <1>3, <1>7, <2>0, <2>2
  <2> QED BY <1>8, <2>1, <2>2
<1>13. MailsOK'
  BY <1>4 DEF IInv, MailsOK
<1>14. LateOK'
  <2>1. proc'[w].at \notin {"judge", "policy"}
    BY <1>6
  <2> QED BY <1>4, <1>6, <1>7, <2>1, LateStays
<1>15. InvoiceComing'
  <2>1. CASE Issue
    <3>1. Owed => Asked'
      BY <1>1, <2>1, IssueTypes
    <3> QED BY <1>7, <3>1 DEF InvoiceComing
  <2>2. CASE ~Issue
    <3>1. UNCHANGED <<booking, invoices, receipts, jobs>>
      BY <1>4, <1>5, <2>2
    <3> QED BY <3>1 DEF IInv, InvoiceComing, Owed, Asked, Outstanding
  <2> QED BY <2>1, <2>2
<1> QED BY <1>9, <1>10, <1>11, <1>12, <1>13, <1>14, <1>15 DEF IInv

\* Steps of a tick that leave the row, the outbox and the receipts alone.
LEMMA TickMoves ==
  ASSUME IInv, NEW w \in Worker,
         UNCHANGED <<document, invoices, jobs, receipts>>,
         proc' \in [Worker -> Proc],
         \A v \in Worker \ {w} : proc'[v] = proc[v],
         TickOK(w)',
         SweepOK(w)',
         proc'[w].at \in {"create", "send", "mail", "done", "failed"} =>
           proc'[w].job \in DOMAIN jobs,
         mails' \subseteq [job: Nat, amount: Nat], MailsOK',
         events' \in Nat, faults' \in Nat
  PROVE  IInv'
<1>1. UNCHANGED <<booking, policy, prepay, late, invoices, jobs, receipts>>
  BY DEF document
<1>2. TypeOK'
  <2>1. \A v \in Worker :
          proc'[v].at \in {"create", "send", "mail", "done", "failed"} =>
            proc'[v].job \in DOMAIN jobs
    BY DEF IInv, TypeOK
  <2> QED BY <1>1, <2>1 DEF IInv, TypeOK
<1>3. TicksOK'
  BY <1>1, TickStays DEF TicksOK
<1>4. JobsOK' /\ ReceiptsOK'
  BY <1>1 DEF IInv, JobsOK, JobOK, ReceiptsOK
<1>5. LateOK'
  <2>1. booking \in Booking /\ booking.revision \in Nat
    BY DEF IInv, TypeOK, Booking
  <2>2. \A v \in Worker : proc'[v] = proc[v] \/ SweepOK(v)'
    OBVIOUS
  <2> QED BY <1>1, <2>1, <2>2, LateStays
<1>6. InvoiceComing'
  BY <1>1 DEF IInv, InvoiceComing, Owed, Asked, Outstanding
<1> QED BY <1>2, <1>3, <1>4, <1>5, <1>6 DEF IInv

LEMMA RenderKeeps ==
  ASSUME IInv, NEW w \in Worker, Render(w)
  PROVE  IInv'
<1> DEFINE j == proc[w].job
           a == invoices[Chosen(w)].amount
           p == [proc[w] EXCEPT !.at = "mail", !.amount = a]
<1>1. /\ TypeOK /\ jobs \in Seq(Job) /\ j \in DOMAIN jobs /\ proc[w] \in Proc
      /\ invoices \in Seq(Invoice) /\ proc[w].at = "send"
  BY DEF IInv, TypeOK, Render, At
<1>2. /\ jobs[j].key.what = "send" /\ jobs[j].amount = a
      /\ Chosen(w) \in DOMAIN invoices
  <2>1. TickOK(w) /\ JobOK(j)
    BY <1>1 DEF IInv, TicksOK, JobsOK
  <2>2. jobs[j].key.what = "send"
    BY <1>1, <2>1 DEF TickOK
  <2> QED BY <1>1, <2>1, <2>2 DEF JobOK, Chosen, TypeOK
<1>3. a \in Nat
  <2>1. invoices[Chosen(w)] \in Invoice
    BY <1>1, <1>2
  <2> QED BY <2>1 DEF Invoice
<1>4. /\ proc' = [proc EXCEPT ![w] = p]
      /\ UNCHANGED <<document, invoices, mails, jobs, receipts, events, faults>>
  BY DEF Render, papers
<1> HIDE DEF a
<1>5. p \in Proc /\ p.at = "mail" /\ p.job = j /\ p.amount = a
  BY <1>1, <1>3 DEF Proc
<1> HIDE DEF p
<1>6. /\ proc' \in [Worker -> Proc] /\ proc'[w] = p
      /\ \A v \in Worker \ {w} : proc'[v] = proc[v]
  BY <1>1, <1>4, <1>5, ProcWrites
<1>7. TickOK(w)' /\ SweepOK(w)'
  BY <1>2, <1>4, <1>5, <1>6 DEF TickOK, SweepOK
<1>8. MailsOK' /\ mails' \subseteq [job: Nat, amount: Nat]
      /\ events' \in Nat /\ faults' \in Nat
  BY <1>1, <1>4 DEF IInv, MailsOK, TypeOK
<1> QED BY <1>1, <1>4, <1>5, <1>6, <1>7, <1>8, TickMoves

\* What is about to leave is the invoice that was meant.
LEMMA LeavesOK ==
  ASSUME IInv, NEW w \in Worker, At(w, "mail"), jobs' = jobs,
         mails' \in {mails, Leaves(w)}
  PROVE  MailsOK' /\ mails' \subseteq [job: Nat, amount: Nat]
<1> DEFINE m == [job |-> proc[w].job, amount |-> proc[w].amount]
<1>1. /\ proc[w] \in Proc /\ proc[w].job \in DOMAIN jobs
      /\ mails \subseteq [job: Nat, amount: Nat] /\ proc[w].at = "mail"
  BY DEF IInv, TypeOK, At
<1>2. TickOK(w)
  BY DEF IInv, TicksOK
<1>3. proc[w].amount = jobs[proc[w].job].amount
  BY <1>1, <1>2 DEF TickOK
<1>4. proc[w].job \in Nat /\ proc[w].amount \in Nat
  BY <1>1 DEF Proc
<1>5. mails' \subseteq mails \cup {m}
  BY DEF Leaves
<1>6. /\ m \in [job: Nat, amount: Nat] /\ m.job \in DOMAIN jobs
      /\ m.amount = jobs[m.job].amount
  BY <1>1, <1>3, <1>4
<1> HIDE DEF m
<1> QED BY <1>1, <1>5, <1>6 DEF IInv, MailsOK

LEMMA MailKeeps ==
  ASSUME IInv, NEW w \in Worker, Mail(w)
  PROVE  IInv'
<1>1. /\ GoTo(w, "done") /\ mails' \in {mails, Leaves(w)} /\ At(w, "mail")
      /\ UNCHANGED <<document, invoices, jobs, receipts, events, faults>>
      /\ TypeOK /\ proc[w].at = "mail" /\ proc[w].job \in DOMAIN jobs
  BY DEF IInv, TypeOK, Mail, At
<1>2. /\ proc' \in [Worker -> Proc]
      /\ \A v \in Worker \ {w} : proc'[v] = proc[v]
      /\ proc'[w].at = "done" /\ proc'[w].job = proc[w].job
  BY <1>1, GoToIs
<1>3. TickOK(w)' /\ SweepOK(w)'
  <2>1. TickOK(w)
    BY DEF IInv, TicksOK
  <2> QED BY <1>1, <1>2, <2>1 DEF TickOK, SweepOK
<1>4. MailsOK' /\ mails' \subseteq [job: Nat, amount: Nat]
  BY <1>1, LeavesOK
<1>5. events' \in Nat /\ faults' \in Nat
  BY <1>1 DEF TypeOK
<1> QED BY <1>1, <1>2, <1>3, <1>4, <1>5, TickMoves

\* A job is done only after its command ran.
LEMMA ReleaseKeeps ==
  ASSUME IInv, NEW w \in Worker, NEW state \in {"done", "pending"},
         Release(w, state)
  PROVE  IInv'
<1> DEFINE j == proc[w].job
           job == [jobs[j] EXCEPT !.state = state, !.lease = None]
           p == [Idle EXCEPT !.at = "sweep"]
<1>1. /\ TypeOK /\ jobs \in Seq(Job) /\ j \in DOMAIN jobs /\ jobs[j] \in Job
      /\ proc[w].at = IF state = "done" THEN "done" ELSE "failed"
  BY DEF IInv, TypeOK, Release, At
<1>2. /\ jobs' = IF jobs[j].lease # w THEN jobs ELSE [jobs EXCEPT ![j] = job]
      /\ proc' = [proc EXCEPT ![w] = p]
      /\ UNCHANGED <<document, papers, receipts, events, faults>>
  BY DEF Release
<1>3. /\ job \in Job /\ job.key = jobs[j].key /\ job.invoice = jobs[j].invoice
      /\ job.amount = jobs[j].amount /\ job.state = state
  BY <1>1 DEF Job
<1>4. p \in Proc /\ p.at = "sweep"
  BY DEF Proc, Idle, Marks, Stages
<1>5. jobs[j].key.what = "create" /\ state = "done" =>
        Receipt(jobs[j].key) \in receipts
  BY <1>1 DEF IInv, TicksOK, TickOK
<1> HIDE DEF job, p
<1>6. /\ jobs' \in Seq(Job) /\ DOMAIN jobs' = DOMAIN jobs
      /\ jobs'[j] \in {jobs[j], job}
      /\ \A k \in DOMAIN jobs : k # j => jobs'[k] = jobs[k]
  <2>1. CASE jobs[j].lease # w
    BY <1>1, <1>2, <2>1
  <2>2. CASE jobs[j].lease = w
    <3>1. jobs' = [jobs EXCEPT ![j] = job]
      BY <1>2, <2>2
    <3> HIDE DEF j
    <3> QED BY <1>1, <1>3, <3>1
  <2> QED BY <2>1, <2>2
<1>7. \A k \in DOMAIN jobs :
        /\ jobs'[k].key = jobs[k].key
        /\ jobs'[k].invoice = jobs[k].invoice
        /\ jobs'[k].amount = jobs[k].amount
        /\ jobs'[k].key.what = "create" /\ jobs'[k].state = "done" =>
             Receipt(jobs[k].key) \in receipts
  <2> SUFFICES ASSUME NEW k \in DOMAIN jobs
               PROVE  /\ jobs'[k].key = jobs[k].key
                      /\ jobs'[k].invoice = jobs[k].invoice
                      /\ jobs'[k].amount = jobs[k].amount
                      /\ jobs'[k].key.what = "create" /\ jobs'[k].state = "done" =>
                           Receipt(jobs[k].key) \in receipts
    OBVIOUS
  <2>0. JobOK(k)
    BY DEF IInv, JobsOK
  <2>1. CASE jobs'[k] = jobs[k]
    BY <2>0, <2>1 DEF JobOK
  <2>2. CASE k = j /\ jobs'[k] = job
    BY <1>3, <1>5, <2>2
  <2> QED BY <1>6, <2>1, <2>2
<1>8. /\ \A k \in DOMAIN jobs' :
           jobs'[k].key.what = "send" => jobs'[k].invoice \in DOMAIN invoices
      /\ JobsOK' /\ ReceiptsOK' /\ MailsOK' /\ InvoiceComing'
  BY <1>2, <1>6, <1>7, JobMoves
<1>9. /\ proc' \in [Worker -> Proc] /\ proc'[w] = p
      /\ \A v \in Worker \ {w} : proc'[v] = proc[v]
  BY <1>1, <1>2, <1>4, ProcWrites
<1>10. TypeOK'
  BY <1>2, <1>4, <1>6, <1>8, <1>9 DEF IInv, TypeOK, document, papers
<1>11. TicksOK'
  <2> SUFFICES ASSUME NEW v \in Worker PROVE TickOK(v)'
    BY DEF TicksOK
  <2>1. CASE v = w
    BY <1>4, <1>9, <2>1 DEF TickOK
  <2>2. CASE v # w
    BY <1>2, <1>7, <1>9, <2>2, TickStays
  <2> QED BY <2>1, <2>2
<1>12. LateOK'
  <2>1. booking \in Booking /\ booking.revision \in Nat
    BY <1>1 DEF TypeOK, Booking
  <2> QED BY <1>2, <1>4, <1>9, <2>1, LateStays DEF document
<1> QED BY <1>8, <1>10, <1>11, <1>12 DEF IInv

\* The sweep reads the row with its dates.
LEMMA SweepKeeps ==
  ASSUME IInv, NEW w \in Worker, Sweep(w)
  PROVE  IInv'
<1> DEFINE read == [Idle EXCEPT !.at = "judge", !.revision = booking.revision,
                                !.since = policy.since, !.kind = policy.kind,
                                !.stage = policy.stage, !.mark = policy.mark]
           unpaid == booking.live /\ booking.status # "paid" /\ policy.kind # "none"
           p == IF unpaid THEN read ELSE Idle
<1>1. /\ TypeOK /\ booking.revision \in Nat /\ policy \in Policy
      /\ policy.kind \in Dated \cup {"none"} /\ policy.since \in Nat
      /\ policy.stage \in Stages /\ policy.mark \in Marks
  BY DEF IInv, TypeOK, Booking, Policy
<1>2. /\ read \in Proc /\ read.at = "judge"
      /\ read.kind = policy.kind /\ read.since = policy.since
  BY <1>1 DEF Idle, Proc, Marks, Stages
<1>3. Idle \in Proc /\ Idle.at = "idle"
  BY DEF Idle, Proc, Marks, Stages
<1>4. proc' = [proc EXCEPT ![w] = p]
      /\ UNCHANGED <<document, papers, jobs, receipts, events, faults>>
  BY DEF Sweep
<1> HIDE DEF read, unpaid
<1>5. p \in Proc /\ p.at \in {"judge", "idle"} /\ (p.at = "judge" => p = read)
  BY <1>2, <1>3
<1> HIDE DEF p
<1>6. /\ proc' \in [Worker -> Proc] /\ proc'[w] = p
      /\ \A v \in Worker \ {w} : proc'[v] = proc[v]
  BY <1>1, <1>4, <1>5, ProcWrites
<1>7. SweepOK(w)' /\ TickOK(w)'
  BY <1>1, <1>2, <1>4, <1>5, <1>6 DEF SweepOK, TickOK, document
<1>8. MailsOK' /\ mails' \subseteq [job: Nat, amount: Nat]
      /\ events' \in Nat /\ faults' \in Nat
  BY <1>1, <1>4 DEF IInv, MailsOK, TypeOK, papers
<1> QED BY <1>4, <1>5, <1>6, <1>7, <1>8, TickMoves DEF papers

\* By the dates that are still those of the row, only a row that is overdue is
\* found so.
LEMMA JudgeKeeps ==
  ASSUME IInv, NEW w \in Worker, Judge(w)
  PROVE  IInv'
<1>1. PICK stage \in Reached(proc[w].stage, proc[w].kind) :
        /\ proc[w].since = policy.since => stage = policy.stage
        /\ proc' = [proc EXCEPT ![w] =
             IF StateAt(stage) = proc[w].mark THEN Idle
             ELSE [proc[w] EXCEPT !.at = "policy", !.stage = "ahead", !.mark = StateAt(stage)]]
  BY DEF Judge
<1> DEFINE q == [proc[w] EXCEPT !.at = "policy", !.stage = "ahead", !.mark = StateAt(stage)]
           p == IF StateAt(stage) = proc[w].mark THEN Idle ELSE q
<1>2. /\ TypeOK /\ proc[w] \in Proc /\ proc[w].at = "judge"
      /\ UNCHANGED <<document, papers, jobs, receipts, events, faults>>
  BY DEF IInv, TypeOK, Judge, At
<1>3. StateAt(stage) \in Marks /\ (StateAt(stage) = "overdue" => stage = "past")
  BY DEF StateAt, Marks
<1>4. /\ q \in Proc /\ q.at = "policy" /\ q.mark = StateAt(stage)
      /\ q.since = proc[w].since /\ q.kind = proc[w].kind
  BY <1>2, <1>3 DEF Proc, Stages
<1>5. Idle \in Proc /\ Idle.at = "idle"
  BY DEF Idle, Proc, Marks, Stages
<1>6. proc' = [proc EXCEPT ![w] = p]
  BY <1>1
<1> HIDE DEF q
<1>7. p \in Proc /\ p.at \in {"policy", "idle"} /\ (p.at = "policy" => p = q)
  BY <1>4, <1>5
<1> HIDE DEF p
<1>8. /\ proc' \in [Worker -> Proc] /\ proc'[w] = p
      /\ \A v \in Worker \ {w} : proc'[v] = proc[v]
  BY <1>2, <1>6, <1>7, ProcWrites
<1>9. SweepOK(w)
  BY DEF IInv, LateOK
<1>10. SweepOK(w)' /\ TickOK(w)'
  BY <1>1, <1>2, <1>3, <1>4, <1>7, <1>8, <1>9 DEF SweepOK, TickOK, document
<1>11. MailsOK' /\ mails' \subseteq [job: Nat, amount: Nat]
      /\ events' \in Nat /\ faults' \in Nat
  BY <1>2 DEF IInv, MailsOK, TypeOK, papers
<1> QED BY <1>2, <1>7, <1>8, <1>10, <1>11, TickMoves DEF papers

\* The command of a decision leaves the dates alone.
LEMMA DecideKeeps ==
  ASSUME IInv, NEW w \in Worker, Decide(w)
  PROVE  IInv'
<1> DEFINE status == IF proc[w].kind = "postpay" THEN StatusOf(proc[w].mark)
                     ELSE booking.status
           b == [booking EXCEPT !.status = status]
           q == [policy EXCEPT !.mark = proc[w].mark]
           runs == ~ \/ Decision(w) \in receipts
                     \/ ~booking.live \/ booking.status = "paid"
<1>1. /\ TypeOK /\ booking \in Booking /\ policy \in Policy /\ proc[w] \in Proc
      /\ proc[w].at = "policy" /\ booking.revision \in Nat
      /\ booking.status \in {"unpaid", "postpay", "postpay_warning", "overdue", "paid"}
      /\ receipts \subseteq [key: Key, mark: Marks]
  BY DEF IInv, TypeOK, Decide, At, Booking
<1>2. proc[w].mark \in Marks /\ proc[w].revision \in Nat
  BY <1>1 DEF Proc
<1>3. /\ status \in {"unpaid", "postpay", "postpay_warning", "overdue", "paid"}
      /\ booking.status # "paid" => status # "paid"
  BY <1>1 DEF StatusOf
<1>4. /\ UNCHANGED <<late, papers, jobs, events, faults>>
      /\ receipts' = receipts \cup {Decision(w)}
      /\ proc' = [proc EXCEPT ![w] = Idle]
      /\ ~runs => UNCHANGED <<booking, policy, prepay>>
      /\ runs => /\ Save(b) /\ policy' = q
                 /\ prepay' = (prepay \/ Blocks(w))
  BY DEF Decide
<1> HIDE DEF status
<1>5. /\ b \in Booking /\ b.invoice = booking.invoice /\ b.live = booking.live
      /\ b.revision = booking.revision /\ b.total = booking.total
      /\ b.paid = booking.paid /\ b.method = booking.method /\ b.status = status
  BY <1>1, <1>3 DEF Booking
<1>6. /\ q \in Policy /\ q.kind = policy.kind /\ q.stage = policy.stage
      /\ q.since = policy.since
  BY <1>1, <1>2 DEF Policy
<1> HIDE DEF b, q
<1>7. /\ booking' \in Booking /\ booking.revision <= booking'.revision
      /\ booking'.invoice = booking.invoice /\ booking'.live = booking.live
      /\ booking'.total = booking.total /\ booking'.paid = booking.paid
      /\ booking'.method = booking.method
      /\ booking'.status # "paid" => booking.status # "paid"
      /\ policy' \in Policy /\ policy'.kind = policy.kind
      /\ policy'.stage = policy.stage /\ policy'.since = policy.since
  <2>1. CASE runs
    <3>1. Save(b) /\ policy' = q /\ booking.status # "paid"
      BY <1>4, <2>1
    <3>2. /\ booking' \in Booking /\ booking'.revision = b.revision + 1
          /\ booking'.live = b.live /\ booking'.method = b.method
          /\ booking'.total = b.total /\ booking'.paid = b.paid
          /\ booking'.status = b.status /\ booking'.invoice = b.invoice
      BY <1>5, <3>1, SaveIs
    <3> QED BY <1>1, <1>5, <1>6, <3>1, <3>2
  <2>2. CASE ~runs
    BY <1>1, <1>4, <2>2
  <2> QED BY <2>1, <2>2
<1>8. Decision(w) \in [key: Key, mark: Marks] /\ Decision(w).key.what = "policy"
  BY <1>2 DEF Decision, JobKey, Key
<1>9. Idle \in Proc /\ Idle.at = "idle"
  BY DEF Idle, Proc, Marks, Stages
<1>10. /\ proc' \in [Worker -> Proc] /\ proc'[w] = Idle
       /\ \A v \in Worker \ {w} : proc'[v] = proc[v]
  BY <1>1, <1>4, <1>9, ProcWrites
<1>11. prepay' \in BOOLEAN
  <2>1. prepay \in BOOLEAN /\ Blocks(w) \in BOOLEAN
    BY DEF IInv, TypeOK, Blocks
  <2> QED BY <1>4, <2>1
<1> HIDE DEF runs
<1>12. TypeOK'
  <2>1. booking'.invoice \in 0 .. Len(invoices') /\ receipts' \subseteq [key: Key, mark: Marks]
    BY <1>1, <1>4, <1>7, <1>8 DEF TypeOK, papers
  <2>2. {prepay', late'} \subseteq BOOLEAN
    BY <1>1, <1>4, <1>11 DEF TypeOK
  <2>3. \A v \in Worker :
          proc'[v].at \in {"create", "send", "mail", "done", "failed"} =>
            proc'[v].job \in DOMAIN jobs
    BY <1>1, <1>9, <1>10 DEF TypeOK
  <2> QED BY <1>1, <1>4, <1>7, <1>10, <2>1, <2>2, <2>3 DEF TypeOK, papers
<1>13. TicksOK'
  <2> SUFFICES ASSUME NEW v \in Worker PROVE TickOK(v)'
    BY DEF TicksOK
  <2>1. CASE v = w
    BY <1>9, <1>10, <2>1 DEF TickOK
  <2>2. CASE v # w
    BY <1>4, <1>10, <2>2, TickStays
  <2> QED BY <2>1, <2>2
<1>14. JobsOK'
  <2> SUFFICES ASSUME NEW j \in DOMAIN jobs PROVE JobOK(j)'
    BY <1>4 DEF JobsOK
  <2>1. JobOK(j) /\ jobs[j] \in Job
    BY DEF IInv, JobsOK, TypeOK
  <2>2. jobs[j].key.n \in Nat /\ booking'.revision \in Nat
    BY <1>7, <2>1 DEF Job, Booking
  <2> QED BY <1>1, <1>4, <1>7, <2>1, <2>2 DEF JobOK, papers
<1>15. ReceiptsOK'
  <2> SUFFICES ASSUME NEW r \in receipts', r.key.what = "create"
               PROVE  r.key.n <= booking'.revision
    BY DEF ReceiptsOK
  <2>1. r \in receipts
    BY <1>4, <1>8
  <2>2. r.key.n \in Nat /\ r.key.n <= booking.revision
    BY <1>1, <2>1 DEF IInv, ReceiptsOK, Key
  <2>3. booking'.revision \in Nat
    BY <1>7 DEF Booking
  <2> QED BY <1>1, <1>7, <2>2, <2>3
<1>16. MailsOK'
  BY <1>4 DEF IInv, MailsOK, papers
<1>17. LateOK'
  BY <1>4, <1>7, <1>9, <1>10, LateStays
<1>18. InvoiceComing'
  <2>1. (Owed' <=> Owed) /\ (Asked' <=> Asked)
    BY <1>4, <1>7 DEF Owed, Asked, Outstanding, papers
  <2> SUFFICES ASSUME Owed, ~Asked PROVE InvoiceComing'
    BY <2>1 DEF InvoiceComing
  <2>2. PICK j \in DOMAIN jobs :
          /\ jobs[j].key.what = "create" /\ jobs[j].state # "done"
          /\ Receipt(jobs[j].key) \notin receipts
    BY DEF IInv, InvoiceComing
  <2>3. Receipt(jobs[j].key) # Decision(w)
    BY <1>8, <2>2 DEF Receipt
  <2> QED BY <1>4, <2>2, <2>3 DEF InvoiceComing
<1> QED BY <1>12, <1>13, <1>14, <1>15, <1>16, <1>17, <1>18 DEF IInv

-----------------------------------------------------------------------------
(* What goes wrong *)

\* A tick that fails or dies may have sent its mail, but no other.
LEMMA StopKeeps ==
  ASSUME IInv, NEW w \in Worker,
         \/ GoTo(w, "failed") /\ proc[w].at \in {"create", "send", "mail", "done"}
         \/ proc' = [proc EXCEPT ![w] = Idle],
         mails' \in IF At(w, "mail") THEN {mails, Leaves(w)} ELSE {mails},
         UNCHANGED <<document, invoices, jobs, receipts, events>>,
         faults' = faults + 1
  PROVE  IInv'
<1>1. TypeOK /\ Idle \in Proc /\ Idle.at = "idle"
  BY DEF IInv, Idle, Proc, Marks, Stages
<1>2. /\ proc' \in [Worker -> Proc]
      /\ \A v \in Worker \ {w} : proc'[v] = proc[v]
      /\ proc'[w].at \in {"failed", "idle"}
      /\ proc'[w].at = "failed" => proc'[w].job \in DOMAIN jobs
  <2>1. CASE proc' = [proc EXCEPT ![w] = Idle]
    <3>1. /\ proc' \in [Worker -> Proc] /\ proc'[w] = Idle
          /\ \A v \in Worker \ {w} : proc'[v] = proc[v]
      BY <1>1, <2>1, ProcWrites
    <3> QED BY <1>1, <3>1
  <2>2. CASE /\ GoTo(w, "failed")
             /\ proc[w].at \in {"create", "send", "mail", "done"}
    <3>1. /\ proc' \in [Worker -> Proc]
          /\ \A v \in Worker \ {w} : proc'[v] = proc[v]
          /\ proc'[w].at = "failed" /\ proc'[w].job = proc[w].job
      BY <1>1, <2>2, GoToIs
    <3>2. proc[w].job \in DOMAIN jobs
      BY <1>1, <2>2 DEF TypeOK
    <3> QED BY <3>1, <3>2
  <2> QED BY <2>1, <2>2
<1>3. TickOK(w)' /\ SweepOK(w)'
  BY <1>2 DEF TickOK, SweepOK
<1>4. MailsOK' /\ mails' \subseteq [job: Nat, amount: Nat]
  <2>1. CASE At(w, "mail")
    BY <2>1, LeavesOK
  <2>2. CASE ~At(w, "mail")
    BY <1>1, <2>2 DEF IInv, MailsOK, TypeOK
  <2> QED BY <2>1, <2>2
<1>5. events' \in Nat /\ faults' \in Nat
  BY <1>1 DEF TypeOK
<1> QED BY <1>2, <1>3, <1>4, <1>5, TickMoves

LEMMA FailKeeps ==
  ASSUME IInv, NEW w \in Worker, Fail(w) \/ Crash(w)
  PROVE  IInv'
<1>1. \/ GoTo(w, "failed") /\ proc[w].at \in {"create", "send", "mail", "done"}
      \/ proc' = [proc EXCEPT ![w] = Idle]
  BY DEF Fail, Crash
<1>2. /\ mails' \in IF At(w, "mail") THEN {mails, Leaves(w)} ELSE {mails}
      /\ UNCHANGED <<document, invoices, jobs, receipts, events>>
      /\ faults' = faults + 1
  BY DEF Fail, Crash, Faulty
<1> QED BY <1>1, <1>2, StopKeeps

LEMMA StutterKeeps == IInv /\ UNCHANGED vars => IInv'
BY DEF IInv, vars, TypeOK, TicksOK, TickOK, JobsOK, JobOK, ReceiptsOK, MailsOK,
       LateOK, SweepOK, InvoiceComing, Owed, Asked, Outstanding

LEMMA NextKeeps == IInv /\ [Next]_vars => IInv'
<1> SUFFICES ASSUME IInv, [Next]_vars PROVE IInv'
  OBVIOUS
<1>1. CASE People
  BY <1>1, ChangeKeeps, MarkPaidKeeps, CancelKeeps, IssueByHandKeeps,
     SendInvoiceKeeps DEF People
<1>2. CASE TimePasses
  BY <1>2, TimePassesKeeps
<1>3. ASSUME NEW w \in Worker, Step(w) PROVE IInv'
  <2>1. CASE JobDone(w) \/ JobFailed(w)
    BY <2>1, ReleaseKeeps DEF JobDone, JobFailed
  <2>2. CASE ~(JobDone(w) \/ JobFailed(w))
    BY <1>3, <2>2, CreateKeeps, RenderKeeps, MailKeeps, SweepKeeps, JudgeKeeps,
       DecideKeeps       DEF Step
  <2> QED BY <2>1, <2>2
<1>4. ASSUME NEW w \in Worker, Fail(w) \/ Crash(w) PROVE IInv'
  BY <1>4, FailKeeps
<1>5. ASSUME NEW w \in Worker, NEW j \in DOMAIN jobs, Claim(w, j) PROVE IInv'
  BY <1>5, ClaimKeeps
<1>6. ASSUME NEW j \in DOMAIN jobs, LeaseLapses(j) PROVE IInv'
  BY <1>6, LeaseLapsesKeeps
<1>7. CASE UNCHANGED vars
  BY <1>7, StutterKeeps
<1> QED BY <1>1, <1>2, <1>3, <1>4, <1>5, <1>6, <1>7 DEF Next

LEMMA Invariant == Spec => []IInv
<1>1. Init => IInv
  BY InitOK
<1>2. IInv /\ [Next]_vars => IInv'
  BY NextKeeps
<1> QED BY <1>1, <1>2, PTL DEF Spec

-----------------------------------------------------------------------------
(* Theorems *)

\* Every document has its type, and every reference to an invoice or to a job
\* is to one that exists.
THEOREM TypeCorrect == Spec => []TypeOK
<1>1. IInv => TypeOK
  BY DEF IInv
<1> QED BY <1>1, Invariant, PTL

\* Of every sum that becomes due by invoice the customer is told: no key of a
\* job and no receipt of a command swallows a change of the booking, however
\* many workers and changes there are.
THEOREM InvoicesCome == Spec => []InvoiceComing
<1>1. IInv => InvoiceComing
  BY DEF IInv
<1> QED BY <1>1, Invariant, PTL

\* A mail shows the invoice it was queued with, whatever became of the booking.
THEOREM MailsAreAsChosen == Spec => []MailIsAsChosen
<1>1. IInv => MailIsAsChosen
  BY DEF IInv, MailsOK, MailIsAsChosen
<1> QED BY <1>1, Invariant, PTL

\* Only a decision sets the mark of the profile, and by the dates that are those of
\* the row it does so only for a postpaid booking that was unpaid after its last day.
LEMMA PrepayStep ==
  ASSUME IInv, [Next]_vars, ~prepay, prepay'
  PROVE  late \/ \E w \in Worker : Overtaken(w) /\ At(w, "idle")'
<1>1. PICK w \in Worker : Decide(w)
  <2>1. ASSUME NEW w \in Worker, Step(w), ~Decide(w)
        PROVE  prepay' = prepay
    BY <2>1 DEF Step, Create, Render, Mail, JobDone, JobFailed, Release, Sweep, Judge,
                document
  <2> QED BY <2>1 DEF Next, People, Change, MarkPaid, Cancel, IssueByHand, SendInvoice,
                      TimePasses, Fail, Crash, Claim, LeaseLapses, document, vars
<1>2. /\ Blocks(w) /\ At(w, "policy") /\ booking.live /\ booking.status # "paid"
      /\ proc' = [proc EXCEPT ![w] = Idle]
  BY <1>1 DEF Decide
<1>3. At(w, "idle")'
  BY <1>2 DEF IInv, TypeOK, At, Idle
<1>4. CASE proc[w].since # policy.since
  BY <1>2, <1>3, <1>4 DEF Overtaken
<1>5. CASE proc[w].since = policy.since
  BY <1>2, <1>5 DEF IInv, LateOK, SweepOK, Blocks, At
<1> QED BY <1>4, <1>5

\* Only a postpaid booking that was not paid by its last day costs a profile its
\* postpayment, although the sweep reads rows first and decides and writes later,
\* unless a change of the booking overtook the sweep.
THEOREM PrepaysAreEarned == Spec => PrepayIsEarned
<1>1. IInv /\ [Next]_vars =>
        (~prepay /\ prepay' => late \/ \E w \in Worker : Overtaken(w) /\ At(w, "idle")')
  BY PrepayStep
<1> QED BY <1>1, Invariant, PTL DEF Spec, PrepayIsEarned

-----------------------------------------------------------------------------
(* Nothing is lost: decisions *)

\* A decision is made on a state the row has had when it was read; one whose command ran on the
\* present state found nothing to mark.
DecisionsOK ==
  /\ \A w \in Worker :
       proc[w].at \in {"judge", "policy"} => proc[w].revision <= booking.revision
  /\ \A r \in receipts : r.key.what = "policy" =>
       /\ r.key.n <= booking.revision
       /\ r.key.n = booking.revision => ~booking.live \/ booking.status = "paid"

RowKept == booking' = booking \/ booking'.revision > booking.revision

NoDecision ==
  /\ \A r \in receipts' : r.key.what = "policy" => r \in receipts
  /\ \A v \in Worker : proc'[v].at \in {"judge", "policy"} => proc'[v] = proc[v]

\* The numbers that are compared.
LEMMA Numbers ==
  ASSUME TypeOK
  PROVE  /\ booking.revision \in Nat
         /\ \A w \in Worker : proc[w] \in Proc /\ proc[w].revision \in Nat
         /\ \A r \in receipts : r.key.n \in Nat
BY DEF TypeOK, Booking, Proc, Key

LEMMA DecisionQuiet ==
  ASSUME IInv, TypeOK', DecisionsOK, RowKept, NoDecision
  PROVE  DecisionsOK'
<1>1. /\ TypeOK /\ booking.revision \in Nat /\ booking'.revision \in Nat
      /\ \A w \in Worker : proc[w].revision \in Nat
      /\ \A r \in receipts : r.key.n \in Nat
  BY Numbers DEF IInv, TypeOK, Booking
<1>2. \A w \in Worker :
        proc'[w].at \in {"judge", "policy"} => proc'[w].revision <= booking'.revision
  BY <1>1 DEF DecisionsOK, RowKept, NoDecision
<1>3. \A r \in receipts' : r.key.what = "policy" =>
        /\ r.key.n <= booking'.revision
        /\ r.key.n = booking'.revision => ~booking'.live \/ booking'.status = "paid"
  BY <1>1 DEF DecisionsOK, RowKept, NoDecision
<1> QED BY <1>2, <1>3 DEF DecisionsOK

\* A row that is saved, whatever else changes of it.
LEMMA SavedRow ==
  ASSUME TypeOK, NEW b, Save(b), DOMAIN b = DOMAIN booking, b.revision = booking.revision
  PROVE  RowKept
<1>1. booking.revision \in Nat /\ "revision" \in DOMAIN booking
  BY DEF TypeOK, Booking
<1>2. booking'.revision = booking.revision + 1
  BY <1>1 DEF Save
<1> QED BY <1>1, <1>2 DEF RowKept

LEMMA IssueRow ==
  ASSUME TypeOK, Issue
  PROVE  RowKept
<1> DEFINE b == [booking EXCEPT !.invoice = Len(invoices) + 1]
<1>1. DOMAIN b = DOMAIN booking /\ b.revision = booking.revision
  BY DEF TypeOK, Booking
<1>2. booking' = booking \/ Save(b)
  BY DEF Issue
<1> HIDE DEF b
<1> QED BY <1>1, <1>2, SavedRow DEF RowKept

LEMMA PeopleDecideNothing ==
  ASSUME IInv, People \/ TimePasses
  PROVE  RowKept /\ NoDecision
<1>t. TypeOK /\ booking \in Booking
  BY DEF IInv, TypeOK
<1>n. UNCHANGED <<receipts, proc>>
  BY DEF People, Change, MarkPaid, Cancel, IssueByHand, SendInvoice, TimePasses
<1>1. ASSUME NEW total, NEW method, Change(total, method)
      PROVE  RowKept
  <2> DEFINE due == total > booking.paid
             b == [booking EXCEPT !.total = total, !.method = method,
                     !.status = IF due THEN Unpaid(method) ELSE "paid"]
  <2>1. Save(b)
    BY <1>1 DEF Change
  <2>2. DOMAIN b = DOMAIN booking /\ b.revision = booking.revision
    BY <1>t DEF Booking
  <2> HIDE DEF b
  <2> QED BY <1>t, <2>1, <2>2, SavedRow
<1>2. ASSUME MarkPaid
      PROVE  RowKept
  <2> DEFINE b == [booking EXCEPT !.paid = @ + Outstanding, !.status = "paid"]
  <2>1. Save(b)
    BY <1>2 DEF MarkPaid
  <2>2. DOMAIN b = DOMAIN booking /\ b.revision = booking.revision
    BY <1>t DEF Booking
  <2> HIDE DEF b
  <2> QED BY <1>t, <2>1, <2>2, SavedRow
<1>3. ASSUME Cancel
      PROVE  RowKept
  <2> DEFINE b == [booking EXCEPT !.live = FALSE]
  <2>1. Save(b)
    BY <1>3 DEF Cancel
  <2>2. DOMAIN b = DOMAIN booking /\ b.revision = booking.revision
    BY <1>t DEF Booking
  <2> HIDE DEF b
  <2> QED BY <1>t, <2>1, <2>2, SavedRow
<1>4. ASSUME IssueByHand \/ SendInvoice \/ TimePasses
      PROVE  RowKept
  BY <1>4, <1>t, IssueRow DEF IssueByHand, SendInvoice, TimePasses, document, RowKept
<1> QED BY <1>n, <1>1, <1>2, <1>3, <1>4 DEF People, NoDecision

\* The steps of ticks that neither look at a row nor decide about it.
LEMMA JobsDecideNothing ==
  ASSUME IInv, NEW w \in Worker,
         \/ \E j \in DOMAIN jobs : Claim(w, j)
         \/ Create(w) \/ Render(w) \/ Mail(w) \/ JobDone(w) \/ JobFailed(w)
         \/ Fail(w) \/ Crash(w)
  PROVE  RowKept /\ NoDecision
<1>t. TypeOK /\ proc \in [Worker -> Proc] /\ proc[w] \in Proc
  BY DEF IInv, TypeOK
<1>w. ASSUME NEW p, proc' = [proc EXCEPT ![w] = p], p.at \notin {"judge", "policy"}
      PROVE  \A v \in Worker : proc'[v].at \in {"judge", "policy"} => proc'[v] = proc[v]
  BY <1>w, <1>t
<1>g. ASSUME NEW place \in {"create", "send", "mail", "done", "failed", "sweep"}, GoTo(w, place)
      PROVE  \A v \in Worker : proc'[v].at \in {"judge", "policy"} => proc'[v] = proc[v]
  BY <1>g, <1>t, GoToIs
<1>0. Idle.at = "idle" /\ [Idle EXCEPT !.at = "sweep"].at = "sweep"
  BY DEF Idle
<1>1. ASSUME NEW j \in DOMAIN jobs, Claim(w, j)
      PROVE  RowKept /\ NoDecision
  <2> DEFINE p == [proc[w] EXCEPT !.at = jobs[j].key.what, !.job = j]
  <2>1. p.at \notin {"judge", "policy"}
    <3>1. jobs[j] \in Job
      BY <1>t DEF TypeOK
    <3>2. p.at = jobs[j].key.what
      BY <1>t DEF Proc
    <3> QED BY <3>1, <3>2 DEF Job
  <2>2. proc' = [proc EXCEPT ![w] = p] /\ UNCHANGED <<booking, receipts>>
    BY <1>1 DEF Claim, document
  <2> HIDE DEF p
  <2> QED BY <1>w, <2>1, <2>2 DEF RowKept, NoDecision
<1>2. CASE Create(w)
  <2>1. RowKept
    BY <1>t, <1>2, IssueRow DEF Create, RowKept
  <2>2. jobs[proc[w].job].key.what = "create"
    BY <1>2 DEF IInv, TicksOK, TickOK, Create, At
  <2>3. \A r \in receipts' : r.key.what = "policy" => r \in receipts
    BY <1>2, <2>2 DEF Create, Receipt
  <2>4. GoTo(w, "done") \/ GoTo(w, "failed")
    BY <1>2 DEF Create
  <2> QED BY <1>g, <2>1, <2>3, <2>4 DEF NoDecision
<1>3. CASE Render(w)
  <2> DEFINE p == [proc[w] EXCEPT !.at = "mail", !.amount = invoices[Chosen(w)].amount]
  <2>1. p.at \notin {"judge", "policy"}
    BY <1>t DEF Proc
  <2>2. proc' = [proc EXCEPT ![w] = p] /\ UNCHANGED <<booking, receipts>>
    BY <1>3 DEF Render, document
  <2> HIDE DEF p
  <2> QED BY <1>w, <2>1, <2>2 DEF RowKept, NoDecision
<1>4. CASE Mail(w)
  BY <1>4, <1>g DEF Mail, document, RowKept, NoDecision
<1>5. CASE JobDone(w) \/ JobFailed(w)
  <2>1. /\ proc' = [proc EXCEPT ![w] = [Idle EXCEPT !.at = "sweep"]]
        /\ UNCHANGED <<booking, receipts>>
    BY <1>5 DEF JobDone, JobFailed, Release, document
  <2> QED BY <1>0, <1>w, <2>1 DEF RowKept, NoDecision
<1>6. CASE Fail(w) \/ Crash(w)
  <2>1. /\ GoTo(w, "failed") \/ proc' = [proc EXCEPT ![w] = Idle]
        /\ UNCHANGED <<booking, receipts>>
    BY <1>6 DEF Fail, Crash, document
  <2> QED BY <1>0, <1>g, <1>w, <2>1 DEF RowKept, NoDecision
<1> QED BY <1>1, <1>2, <1>3, <1>4, <1>5, <1>6

\* The sweep reads the present state of the row.
LEMMA SweepDecides ==
  ASSUME IInv, DecisionsOK, NEW w \in Worker, Sweep(w)
  PROVE  DecisionsOK'
<1>t. /\ TypeOK /\ booking.revision \in Nat /\ proc \in [Worker -> Proc]
      /\ UNCHANGED <<booking, receipts>>
  BY Numbers DEF IInv, TypeOK, Sweep, document
<1> DEFINE p == proc'[w]
<1>1. p.at \in {"judge", "policy"} => p.revision = booking.revision
  BY <1>t DEF Sweep, Idle
<1>2. \A v \in Worker \ {w} : proc'[v] = proc[v]
  BY <1>t DEF Sweep
<1>3. \A v \in Worker :
        proc'[v].at \in {"judge", "policy"} => proc'[v].revision <= booking.revision
  BY <1>t, <1>1, <1>2 DEF DecisionsOK
<1> QED BY <1>t, <1>3 DEF DecisionsOK

\* It decides about the state it read.
LEMMA JudgeDecides ==
  ASSUME IInv, DecisionsOK, NEW w \in Worker, Judge(w)
  PROVE  DecisionsOK'
<1>t. /\ TypeOK /\ proc \in [Worker -> Proc] /\ proc[w] \in Proc
      /\ UNCHANGED <<booking, receipts>> /\ proc[w].at = "judge"
  BY DEF IInv, TypeOK, Judge, document, At
<1>1. PICK mark : proc' = [proc EXCEPT ![w] =
        IF mark = proc[w].mark THEN Idle
        ELSE [proc[w] EXCEPT !.at = "policy", !.stage = "ahead", !.mark = mark]]
  BY DEF Judge
<1>2. proc'[w].at \in {"judge", "policy"} => proc'[w].revision = proc[w].revision
  BY <1>t, <1>1 DEF Idle, Proc
<1>3. \A v \in Worker \ {w} : proc'[v] = proc[v]
  BY <1>t, <1>1
<1>4. \A v \in Worker :
        proc'[v].at \in {"judge", "policy"} => proc'[v].revision <= booking.revision
  BY <1>t, <1>2, <1>3 DEF DecisionsOK
<1> QED BY <1>t, <1>4 DEF DecisionsOK

\* A decision that is written makes a new state of the row; one that is not found
\* nothing to mark, or its command ran before.
LEMMA DecideDecides ==
  ASSUME IInv, DecisionsOK, NEW w \in Worker, Decide(w)
  PROVE  DecisionsOK'
<1>t. /\ TypeOK /\ booking \in Booking /\ booking.revision \in Nat
      /\ proc \in [Worker -> Proc]
      /\ \A v \in Worker : proc[v].revision \in Nat
      /\ \A r \in receipts : r.key.n \in Nat
  BY Numbers DEF IInv, TypeOK
<1>1. /\ proc[w].revision <= booking.revision
      /\ Decision(w).key.n = proc[w].revision
  BY DEF DecisionsOK, Decide, At, Decision, JobKey
<1>2. \A v \in Worker : proc'[v].at \in {"judge", "policy"} => proc'[v] = proc[v]
  BY <1>t DEF Decide, Idle
<1>3. receipts' = receipts \cup {Decision(w)}
  BY DEF Decide
<1>4. CASE booking'.revision = booking.revision + 1
  BY <1>t, <1>1, <1>2, <1>3, <1>4 DEF DecisionsOK
<1>5. CASE booking' = booking /\ Decision(w) \in receipts
  BY <1>t, <1>1, <1>2, <1>3, <1>5 DEF DecisionsOK
<1>6. CASE booking' = booking /\ (~booking.live \/ booking.status = "paid")
  BY <1>t, <1>1, <1>2, <1>3, <1>6 DEF DecisionsOK
<1>7. \/ booking'.revision = booking.revision + 1
      \/ booking' = booking /\ Decision(w) \in receipts
      \/ booking' = booking /\ (~booking.live \/ booking.status = "paid")
  <2> DEFINE b == [booking EXCEPT !.status =
                     IF proc[w].kind = "postpay" THEN StatusOf(proc[w].mark)
                     ELSE booking.status]
  <2>1. b.revision = booking.revision /\ "revision" \in DOMAIN b
    BY <1>t DEF Booking
  <2>2. \/ Save(b)
        \/ booking' = booking /\ Decision(w) \in receipts
        \/ booking' = booking /\ (~booking.live \/ booking.status = "paid")
    BY DEF Decide
  <2> HIDE DEF b
  <2> QED BY <2>1, <2>2 DEF Save
<1> QED BY <1>4, <1>5, <1>6, <1>7

LEMMA DecisionsStep ==
  ASSUME IInv, DecisionsOK, [Next]_vars
  PROVE  DecisionsOK'
<1>1. IInv' /\ TypeOK'
  BY NextKeeps DEF IInv
<1>2. CASE UNCHANGED vars \/ \E j \in DOMAIN jobs : LeaseLapses(j)
  <2>1. UNCHANGED <<booking, receipts, proc>>
    BY <1>2 DEF vars, LeaseLapses, document
  <2> QED BY <1>1, <2>1, DecisionQuiet DEF RowKept, NoDecision
<1>3. CASE People \/ TimePasses
  BY <1>1, <1>3, PeopleDecideNothing, DecisionQuiet
<1>4. ASSUME NEW w \in Worker, Step(w) \/ Fail(w) \/ Crash(w) \/ \E j \in DOMAIN jobs : Claim(w, j)
      PROVE  DecisionsOK'
  <2>1. CASE Sweep(w) \/ Judge(w) \/ Decide(w)
    BY <2>1, SweepDecides, JudgeDecides, DecideDecides
  <2>2. CASE ~(Sweep(w) \/ Judge(w) \/ Decide(w))
    BY <1>1, <1>4, <2>2, JobsDecideNothing, DecisionQuiet DEF Step
  <2> QED BY <2>1, <2>2
<1> QED BY <1>2, <1>3, <1>4 DEF Next

-----------------------------------------------------------------------------
(* When a profile deserves to pay in advance *)

\* No change of the booking comes between a sweep's reading of the row and the
\* command of its decision.
NoneOvertaken ==
  [][(\E w \in Worker : proc[w].at \in {"judge", "policy"})
       => policy'.since = policy.since]_vars

DatesAreRead ==
  \A w \in Worker : proc[w].at \in {"judge", "policy"} => proc[w].since = policy.since

\* What a tick has in hand of a row it had before, or reads it now.
LEMMA HandsStay ==
  ASSUME IInv, [Next]_vars, NEW w \in Worker, proc'[w].at \in {"judge", "policy"}
  PROVE  \/ proc[w].at \in {"judge", "policy"} /\ proc'[w].since = proc[w].since
         \/ proc'[w].since = policy.since /\ policy' = policy
<1>t. /\ TypeOK /\ proc \in [Worker -> Proc] /\ proc[w] \in Proc
  BY DEF IInv, TypeOK
<1> SUFFICES ASSUME proc'[w] # proc[w]
             PROVE  \/ proc[w].at \in {"judge", "policy"} /\ proc'[w].since = proc[w].since
                    \/ proc'[w].since = policy.since /\ policy' = policy
  OBVIOUS
<1>0. Idle.at = "idle" /\ [Idle EXCEPT !.at = "sweep"].at = "sweep"
  BY DEF Idle
<1>1. PICK v \in Worker : \/ Step(v) \/ Fail(v) \/ Crash(v)
                          \/ \E j \in DOMAIN jobs : Claim(v, j)
  BY DEF Next, People, Change, MarkPaid, Cancel, IssueByHand, SendInvoice, TimePasses,
         LeaseLapses, vars
<1>2. CASE Sweep(v)
  BY <1>t, <1>2 DEF Sweep, Idle, document
<1>3. CASE Judge(v)
  BY <1>t, <1>3 DEF Judge, At, Idle, Proc
<1>4. CASE Decide(v)
  BY <1>t, <1>0, <1>4 DEF Decide
<1>5. CASE ~(Sweep(v) \/ Judge(v) \/ Decide(v))
  <2>1. \A u \in Worker : proc'[u].at \in {"judge", "policy"} => proc'[u] = proc[u]
    BY <1>1, <1>5, JobsDecideNothing DEF Step, NoDecision
  <2> QED BY <2>1
<1> QED BY <1>2, <1>3, <1>4, <1>5

\* A profile has to pay in advance only when a postpaid booking of it was unpaid
\* after its last day, for as long as no change of the booking falls between a
\* sweep's reading of the row and the command of its decision.
THEOREM PrepaysAreDeserved == Spec /\ NoneOvertaken => [](prepay => late)
<1> DEFINE Kept == (\E w \in Worker : proc[w].at \in {"judge", "policy"})
                     => policy'.since = policy.since
<1>1. Init => DatesAreRead /\ (prepay => late)
  BY DEF Init, DatesAreRead, Idle
<1>2. IInv /\ DatesAreRead /\ [Next]_vars /\ [Kept]_vars => DatesAreRead'
  <2> SUFFICES ASSUME IInv, DatesAreRead, [Next]_vars, [Kept]_vars,
                      NEW w \in Worker, proc'[w].at \in {"judge", "policy"}
               PROVE  proc'[w].since = policy'.since
    BY DEF DatesAreRead
  <2>1. CASE proc[w].at \in {"judge", "policy"} /\ proc'[w].since = proc[w].since
    BY <2>1 DEF DatesAreRead, vars
  <2>2. CASE proc'[w].since = policy.since /\ policy' = policy
    BY <2>2
  <2> QED BY <2>1, <2>2, HandsStay
<1>3. IInv /\ DatesAreRead /\ (prepay => late) /\ [Next]_vars => (prepay => late)'
  <2> SUFFICES ASSUME IInv, DatesAreRead, prepay => late, [Next]_vars, prepay'
               PROVE  late'
    OBVIOUS
  <2>1. late
    BY PrepayStep DEF DatesAreRead, Overtaken, At
  <2>2. UNCHANGED late \/ TimePasses
    BY DEF Next, People, Change, MarkPaid, Cancel, IssueByHand, SendInvoice, Step, Create,
           Render, Mail, JobDone, JobFailed, Release, Sweep, Judge, Decide, Fail, Crash,
           Claim, LeaseLapses, document, vars
  <2> QED BY <2>1, <2>2 DEF TimePasses
<1> QED BY <1>1, <1>2, <1>3, Invariant, PTL DEF Spec, NoneOvertaken

-----------------------------------------------------------------------------
(* Nothing is lost: mails *)

\* A tick is done with a job that sends only when its mail has left.
DoneOK(w) ==
  proc[w].at = "done" /\ jobs[proc[w].job].key.what = "send" =>
    \E m \in mails : m.job = proc[w].job

MailedOK == (\A w \in Worker : DoneOK(w)) /\ MailComing

\* No job is done, and no tick is done with one, that was not before.
NoneDone ==
  /\ mails \subseteq mails'
  /\ DOMAIN jobs \subseteq DOMAIN jobs'
  /\ \A j \in DOMAIN jobs :
       jobs'[j].key = jobs[j].key /\ (jobs'[j].state = "done" => jobs[j].state = "done")
  /\ \A j \in DOMAIN jobs' \ DOMAIN jobs : jobs'[j].state # "done"
  /\ \A v \in Worker :
       /\ proc[v].job \in DOMAIN jobs \/ proc[v].at # "done"
       /\ proc'[v].at = "done" => proc'[v] = proc[v]

LEMMA MailQuiet ==
  ASSUME MailedOK, NoneDone
  PROVE  MailedOK'
<1>1. ASSUME NEW v \in Worker PROVE DoneOK(v)'
  <2>1. DoneOK(v)
    BY DEF MailedOK
  <2> QED BY <2>1 DEF DoneOK, NoneDone
<1>2. MailComing'
  <2> SUFFICES ASSUME NEW j \in DOMAIN jobs', jobs'[j].key.what = "send", jobs'[j].state = "done"
               PROVE  \E m \in mails' : m.job = j
    BY DEF MailComing
  <2>1. j \in DOMAIN jobs /\ jobs[j].key.what = "send" /\ jobs[j].state = "done"
    BY DEF NoneDone
  <2>2. \E m \in mails : m.job = j
    BY <2>1 DEF MailedOK, MailComing
  <2> QED BY <2>2 DEF NoneDone
<1> QED BY <1>1, <1>2 DEF MailedOK

\* A tick that is done has a job.
LEMMA DoneHasJob ==
  ASSUME TypeOK
  PROVE  \A v \in Worker : proc[v].job \in DOMAIN jobs \/ proc[v].at # "done"
BY DEF TypeOK

LEMMA EnqueueDoesNothing ==
  ASSUME TypeOK, NEW what \in {"create", "send"}, NEW n \in Nat, NEW i \in Nat, NEW a \in Nat,
         what = "send" => i \in DOMAIN invoices, jobs' = Enqueue(what, n, i, a)
  PROVE  /\ DOMAIN jobs \subseteq DOMAIN jobs'
         /\ \A j \in DOMAIN jobs : jobs'[j] = jobs[j]
         /\ \A j \in DOMAIN jobs' \ DOMAIN jobs : jobs'[j].state # "done"
<1>1. Grown(jobs', what, n, i, a)
  BY EnqueueKeeps
<1>2. /\ jobs \in Seq(Job) /\ jobs' \in Seq(Job) /\ Len(jobs) <= Len(jobs')
      /\ \A j \in DOMAIN jobs : jobs'[j] = jobs[j]
      /\ \A j \in DOMAIN jobs' \ DOMAIN jobs : jobs'[j].state = "pending"
  BY <1>1 DEF Grown, TypeOK
<1>3. DOMAIN jobs \subseteq DOMAIN jobs'
  BY <1>2
<1>4. \A j \in DOMAIN jobs' \ DOMAIN jobs : jobs'[j].state # "done"
  BY <1>2, Zenon
<1> QED BY <1>2, <1>3, <1>4, Zenon

LEMMA PeopleFinishNothing ==
  ASSUME IInv, People \/ TimePasses
  PROVE  NoneDone
<1>t. TypeOK /\ booking.revision + 1 \in Nat /\ Len(jobs) + 1 \in Nat
  BY Numbers DEF IInv, TypeOK
<1>n. UNCHANGED <<mails, proc>>
  BY DEF People, Change, MarkPaid, Cancel, IssueByHand, SendInvoice, TimePasses, papers
<1>1. ASSUME jobs' = jobs PROVE NoneDone
  BY <1>t, <1>n, <1>1, DoneHasJob DEF NoneDone
<1>2. ASSUME NEW what \in {"create", "send"}, NEW n \in Nat, NEW i \in Nat, NEW a \in Nat,
             what = "send" => i \in DOMAIN invoices, jobs' = Enqueue(what, n, i, a)
      PROVE  NoneDone
  <2>1. /\ DOMAIN jobs \subseteq DOMAIN jobs'
        /\ \A j \in DOMAIN jobs : jobs'[j] = jobs[j]
        /\ \A j \in DOMAIN jobs' \ DOMAIN jobs : jobs'[j].state # "done"
    BY <1>t, <1>2, EnqueueDoesNothing
  <2> QED BY <1>t, <1>n, <2>1, DoneHasJob DEF NoneDone
<1>3. ASSUME NEW total, NEW method, Change(total, method) PROVE NoneDone
  <2>1. jobs' = jobs \/ jobs' = Enqueue("create", booking.revision + 1, 0, 0)
    BY <1>3 DEF Change
  <2> QED BY <1>t, <1>1, <1>2, <2>1
<1>4. ASSUME MarkPaid \/ Cancel \/ IssueByHand \/ TimePasses PROVE NoneDone
  BY <1>1, <1>4 DEF MarkPaid, Cancel, IssueByHand, TimePasses
<1>5. ASSUME SendInvoice PROVE NoneDone
  <2> DEFINE i == booking.invoice
             a == invoices[i].amount
  <2>1. i \in Nat /\ i \in DOMAIN invoices /\ invoices[i] \in Invoice
    BY <1>5, <1>t DEF SendInvoice, TypeOK, Booking
  <2>2. a \in Nat
    BY <2>1 DEF Invoice
  <2>3. jobs' = Enqueue("send", Len(jobs) + 1, i, a)
    BY <1>5 DEF SendInvoice
  <2> HIDE DEF i, a
  <2> QED BY <1>t, <1>2, <2>1, <2>2, <2>3
<1> QED BY <1>3, <1>4, <1>5 DEF People

\* Steps of a tick that finish no job.
LEMMA TicksFinishNothing ==
  ASSUME IInv, NEW w \in Worker,
         \/ \E j \in DOMAIN jobs : Claim(w, j)
         \/ Render(w) \/ JobFailed(w) \/ Sweep(w) \/ Judge(w) \/ Decide(w)
         \/ Fail(w) \/ Crash(w)
  PROVE  NoneDone
<1>t. TypeOK /\ proc \in [Worker -> Proc] /\ proc[w] \in Proc /\ jobs \in Seq(Job)
  BY DEF IInv, TypeOK
<1>w. ASSUME NEW p, proc' = [proc EXCEPT ![w] = p], p.at # "done", mails \subseteq mails', jobs' = jobs
      PROVE  NoneDone
  BY <1>w, <1>t, DoneHasJob DEF NoneDone
<1>i. Idle.at = "idle" /\ [Idle EXCEPT !.at = "sweep"].at = "sweep"
  BY DEF Idle
<1>j. ASSUME NEW p, proc' = [proc EXCEPT ![w] = p], p.at # "done", mails' = mails,
             NEW j \in DOMAIN jobs, NEW job, job.key = jobs[j].key, job.state # "done",
             jobs' = jobs \/ jobs' = [jobs EXCEPT ![j] = job]
      PROVE  NoneDone
  <2>1. /\ DOMAIN jobs' = DOMAIN jobs
        /\ \A k \in DOMAIN jobs :
             jobs'[k].key = jobs[k].key /\ (jobs'[k].state = "done" => jobs[k].state = "done")
    BY <1>j, <1>t
  <2>2. \A v \in Worker : proc'[v].at = "done" => proc'[v] = proc[v]
    BY <1>j, <1>t
  <2> QED BY <1>j, <1>t, <2>1, <2>2, DoneHasJob DEF NoneDone
<1>1. ASSUME NEW j \in DOMAIN jobs, Claim(w, j) PROVE NoneDone
  <2> DEFINE p == [proc[w] EXCEPT !.at = jobs[j].key.what, !.job = j]
             job == [jobs[j] EXCEPT !.state = "running", !.lease = w]
  <2>1. jobs[j] \in Job
    BY <1>t
  <2>2. p.at # "done"
    BY <1>t, <2>1 DEF Proc, Job
  <2>3. job.key = jobs[j].key /\ job.state # "done"
    BY <2>1 DEF Job
  <2>4. proc' = [proc EXCEPT ![w] = p] /\ jobs' = [jobs EXCEPT ![j] = job] /\ mails' = mails
    BY <1>1 DEF Claim, papers
  <2> HIDE DEF p, job
  <2> QED BY <1>j, <2>2, <2>3, <2>4
<1>2. CASE Render(w)
  <2> DEFINE p == [proc[w] EXCEPT !.at = "mail", !.amount = invoices[Chosen(w)].amount]
  <2>1. p.at # "done"
    BY <1>t DEF Proc
  <2>2. proc' = [proc EXCEPT ![w] = p] /\ jobs' = jobs /\ mails' = mails
    BY <1>2 DEF Render, papers
  <2> HIDE DEF p
  <2> QED BY <1>w, <2>1, <2>2
<1>3. CASE JobFailed(w)
  <2> DEFINE j == proc[w].job
             job == [jobs[j] EXCEPT !.state = "pending", !.lease = None]
             p == [Idle EXCEPT !.at = "sweep"]
  <2>1. j \in DOMAIN jobs /\ jobs[j] \in Job
    BY <1>3, <1>t DEF JobFailed, Release, At, TypeOK
  <2>2. job.key = jobs[j].key /\ job.state # "done"
    BY <2>1 DEF Job
  <2>3. /\ proc' = [proc EXCEPT ![w] = p] /\ mails' = mails
        /\ jobs' = jobs \/ jobs' = [jobs EXCEPT ![j] = job]
    BY <1>3 DEF JobFailed, Release, papers
  <2> HIDE DEF p, job, j
  <2> QED BY <1>j, <1>i, <2>1, <2>2, <2>3 DEF p
<1>4. CASE Sweep(w) \/ Judge(w) \/ Decide(w)
  <2>1. /\ \A v \in Worker \ {w} : proc'[v] = proc[v]
        /\ mails' = mails /\ jobs' = jobs
    BY <1>4, <1>t DEF Sweep, Judge, Decide, papers
  <2>2. proc'[w].at # "done"
    <3>1. CASE Sweep(w)
      <4>1. proc'[w].at \in {"judge", "idle"}
        BY <1>t, <3>1 DEF Sweep, Idle
      <4> QED BY <4>1
    <3>3. CASE Judge(w)
      <4>1. PICK mark : proc' = [proc EXCEPT ![w] =
              IF mark = proc[w].mark THEN Idle
              ELSE [proc[w] EXCEPT !.at = "policy", !.stage = "ahead", !.mark = mark]]
        BY <3>3 DEF Judge
      <4>2. proc'[w].at \in {"policy", "idle"}
        BY <1>t, <4>1 DEF Idle, Proc
      <4> QED BY <4>2
    <3>2. CASE Decide(w)
      BY <1>t, <1>i, <3>2 DEF Decide
    <3> QED BY <1>4, <3>1, <3>2, <3>3
  <2> QED BY <1>t, <2>1, <2>2, DoneHasJob DEF NoneDone
<1>5. CASE Fail(w) \/ Crash(w)
  <2>1. mails \subseteq mails' /\ jobs' = jobs
    BY <1>5 DEF Fail, Crash, Leaves
  <2>2. CASE GoTo(w, "failed")
    <3> DEFINE p == [proc[w] EXCEPT !.at = "failed"]
    <3>1. p.at # "done"
      BY <1>t DEF Proc
    <3>2. proc' = [proc EXCEPT ![w] = p]
      BY <2>2 DEF GoTo
    <3> HIDE DEF p
    <3> QED BY <1>w, <2>1, <3>1, <3>2
  <2>3. CASE proc' = [proc EXCEPT ![w] = Idle]
    BY <1>w, <1>i, <2>1, <2>3
  <2> QED BY <1>5, <2>2, <2>3 DEF Fail, Crash
<1> QED BY <1>1, <1>2, <1>3, <1>4, <1>5

\* The job that is finished issued an invoice, or its mail has left.
LEMMA TicksFinish ==
  ASSUME IInv, MailedOK, NEW w \in Worker, Create(w) \/ Mail(w) \/ JobDone(w)
  PROVE  MailedOK'
<1>t. TypeOK /\ proc \in [Worker -> Proc] /\ proc[w] \in Proc /\ jobs \in Seq(Job)
  BY DEF IInv, TypeOK
<1>c. TickOK(w)
  BY DEF IInv, TicksOK
<1>1. CASE Create(w) \/ Mail(w)
  <2>1. /\ jobs' = jobs /\ mails \subseteq mails'
        /\ \A v \in Worker \ {w} : proc'[v] = proc[v]
        /\ proc'[w].at \in {"done", "failed"} /\ proc'[w].job = proc[w].job
    <3>1. GoTo(w, "done") \/ GoTo(w, "failed")
      BY <1>1 DEF Create, Mail
    <3>2. /\ \A v \in Worker \ {w} : proc'[v] = proc[v]
          /\ proc'[w].at \in {"done", "failed"} /\ proc'[w].job = proc[w].job
      BY <1>t, <3>1, GoToIs
    <3> QED BY <1>1, <3>2 DEF Create, Mail, Leaves
  <2>2. DoneOK(w)'
    <3>1. CASE Create(w)
      BY <1>c, <2>1, <3>1 DEF TickOK, Create, At, DoneOK
    <3>2. CASE Mail(w)
      <4>1. [job |-> proc[w].job, amount |-> proc[w].amount] \in mails'
        BY <3>2 DEF Mail, Leaves
      <4>2. \E m \in mails' : m.job = proc[w].job
        BY <4>1
      <4> QED BY <2>1, <4>2 DEF DoneOK
    <3> QED BY <1>1, <3>1, <3>2
  <2>3. ASSUME NEW v \in Worker, v # w PROVE DoneOK(v)'
    <3>1. DoneOK(v)
      BY DEF MailedOK
    <3> QED BY <2>1, <2>3, <3>1 DEF DoneOK
  <2>4. MailComing'
    BY <2>1 DEF MailedOK, MailComing
  <2> QED BY <2>2, <2>3, <2>4 DEF MailedOK
<1>2. CASE JobDone(w)
  <2> DEFINE j == proc[w].job
             job == [jobs[j] EXCEPT !.state = "done", !.lease = None]
             p == [Idle EXCEPT !.at = "sweep"]
  <2>1. j \in DOMAIN jobs /\ jobs[j] \in Job /\ proc[w].at = "done"
    BY <1>2, <1>t DEF JobDone, Release, At, TypeOK
  <2>2. job.key = jobs[j].key /\ p.at # "done"
    BY <2>1 DEF Job, Idle
  <2>3. /\ proc' = [proc EXCEPT ![w] = p] /\ mails' = mails
        /\ jobs' = jobs \/ jobs' = [jobs EXCEPT ![j] = job]
    BY <1>2 DEF JobDone, Release, papers
  <2>4. jobs[j].key.what = "send" => \E m \in mails : m.job = j
    BY <2>1 DEF MailedOK, DoneOK
  <2> HIDE DEF p, job, j
  <2>5. /\ DOMAIN jobs' = DOMAIN jobs
        /\ \A k \in DOMAIN jobs :
             jobs'[k].key = jobs[k].key /\ (k # j => jobs'[k].state = jobs[k].state)
    BY <1>t, <2>1, <2>2, <2>3
  <2>6. MailComing'
    BY <2>3, <2>4, <2>5 DEF MailedOK, MailComing
  <2>7. \A v \in Worker : proc'[v].at = "done" => proc'[v] = proc[v]
    BY <1>t, <2>2, <2>3
  <2>8. ASSUME NEW v \in Worker PROVE DoneOK(v)'
    <3>1. DoneOK(v) /\ (proc[v].job \in DOMAIN jobs \/ proc[v].at # "done")
      BY <1>t, DoneHasJob DEF MailedOK
    <3>2. CASE proc'[v].at = "done"
      <4>1. proc'[v] = proc[v] /\ proc[v].job \in DOMAIN jobs
        BY <2>7, <3>1, <3>2
      <4>2. jobs'[proc[v].job].key = jobs[proc[v].job].key
        BY <2>5, <4>1
      <4> QED BY <2>3, <3>1, <4>1, <4>2 DEF DoneOK
    <3>3. CASE proc'[v].at # "done"
      BY <3>3 DEF DoneOK
    <3> QED BY <3>2, <3>3
  <2> QED BY <2>6, <2>8 DEF MailedOK
<1> QED BY <1>1, <1>2

LEMMA MailedStep ==
  ASSUME IInv, MailedOK, [Next]_vars
  PROVE  MailedOK'
<1>t. TypeOK /\ jobs \in Seq(Job)
  BY DEF IInv, TypeOK
<1>1. CASE UNCHANGED vars
  BY <1>t, <1>1, DoneHasJob, MailQuiet DEF vars, NoneDone
<1>2. ASSUME NEW j \in DOMAIN jobs, LeaseLapses(j) PROVE NoneDone
  <2> DEFINE job == [jobs[j] EXCEPT !.state = "overrun"]
  <2>1. jobs[j] \in Job
    BY <1>t
  <2>2. job.key = jobs[j].key /\ job.state # "done"
    BY <2>1 DEF Job
  <2>3. UNCHANGED <<mails, proc>> /\ jobs' = [jobs EXCEPT ![j] = job]
    BY <1>2 DEF LeaseLapses, papers
  <2> HIDE DEF job
  <2>4. /\ DOMAIN jobs' = DOMAIN jobs
        /\ \A k \in DOMAIN jobs :
             jobs'[k].key = jobs[k].key /\ (jobs'[k].state = "done" => jobs[k].state = "done")
    BY <1>t, <2>2, <2>3
  <2> QED BY <1>t, <2>3, <2>4, DoneHasJob DEF NoneDone
<1>3. ASSUME NEW w \in Worker, Step(w) \/ Fail(w) \/ Crash(w) \/ \E j \in DOMAIN jobs : Claim(w, j)
      PROVE  MailedOK'
  <2>1. CASE Create(w) \/ Mail(w) \/ JobDone(w)
    BY <2>1, TicksFinish
  <2>2. CASE ~(Create(w) \/ Mail(w) \/ JobDone(w))
    BY <1>3, <2>2, TicksFinishNothing, MailQuiet DEF Step
  <2> QED BY <2>1, <2>2
<1> QED BY <1>1, <1>2, <1>3, PeopleFinishNothing, MailQuiet DEF Next

LEMMA LossBegins == Init => DecisionsOK /\ MailedOK
<1> SUFFICES ASSUME Init PROVE DecisionsOK /\ MailedOK
  OBVIOUS
<1>1. receipts = {} /\ \A w \in Worker : proc[w].at = "idle"
  BY DEF Init, Idle
<1>2. \A j \in DOMAIN jobs : jobs[j].state # "done"
  BY DEF Init
<1> QED BY <1>1, <1>2 DEF DecisionsOK, MailedOK, DoneOK, MailComing

\* What is to come still comes, however keys and leases are used up by ticks that
\* fail, die or overtake each other: the invoice of a sum that is due, the mail of
\* a job that is to send one, and the mark of a row whose date has passed.
THEOREM NothingIsLost == Spec => []NothingLost
<1>1. IInv /\ (DecisionsOK /\ MailedOK) /\ [Next]_vars => (DecisionsOK /\ MailedOK)'
  BY DecisionsStep, MailedStep
<1>2. IInv /\ DecisionsOK /\ MailedOK => NothingLost
  <2> SUFFICES ASSUME IInv, DecisionsOK, MailedOK PROVE NothingLost
    OBVIOUS
  <2>1. MarkComing
    BY DEF DecisionsOK, MarkComing, JobKey
  <2> QED BY <2>1 DEF IInv, MailedOK, NothingLost
<1> QED BY <1>1, <1>2, LossBegins, Invariant, PTL DEF Spec

-----------------------------------------------------------------------------
(* When what is due is asked for by an open invoice *)

\* The current invoice is paid, and as much as it asked for is outstanding.
PaidAgain ==
  /\ Outstanding > 0 /\ booking.invoice # 0
  /\ invoices[booking.invoice].status = "paid"
  /\ invoices[booking.invoice].amount = Outstanding

\* No change of the price leaves outstanding what a current invoice asked for that
\* was paid.
NoEqualSupplement ==
  [][booking.total' # booking.total /\ booking.invoice # 0
       /\ invoices[booking.invoice].status = "paid" /\ Outstanding' > 0
       => Outstanding' # invoices[booking.invoice].amount]_vars

SumsKept ==
  /\ booking'.total = booking.total /\ booking'.paid = booking.paid
  /\ booking'.invoice = booking.invoice /\ invoices' = invoices

LEMMA SumsQuiet ==
  ASSUME ~PaidAgain, SumsKept
  PROVE  ~PaidAgain'
<1>1. Outstanding' = Outstanding
  BY DEF SumsKept, Outstanding
<1> QED BY <1>1 DEF SumsKept, PaidAgain

LEMMA SavedSums ==
  ASSUME NEW b, Save(b), {"total", "paid", "invoice", "revision"} \subseteq DOMAIN b
  PROVE  /\ booking'.total = b.total /\ booking'.paid = b.paid
         /\ booking'.invoice = b.invoice
BY DEF Save

\* An invoice is issued when the current one does not ask for what is outstanding.
LEMMA IssuedIsOpen ==
  ASSUME TypeOK, ~PaidAgain, Issue
  PROVE  ~PaidAgain'
<1> DEFINE new == [amount |-> Outstanding, status |-> "issued"]
           b == [booking EXCEPT !.invoice = Len(invoices) + 1]
<1>1. CASE UNCHANGED <<booking, invoices>>
  BY <1>1, SumsQuiet DEF SumsKept
<1>2. CASE invoices' = Append(invoices, new) /\ Save(b)
  <2>1. {"total", "paid", "invoice", "revision"} \subseteq DOMAIN b /\ b.invoice = Len(invoices) + 1
    BY DEF TypeOK, Booking
  <2> HIDE DEF b
  <2>2. booking'.invoice = Len(invoices) + 1
    BY <1>2, <2>1, SavedSums
  <2>3. invoices \in Seq(Invoice) /\ new.status = "issued"
    BY DEF TypeOK
  <2> HIDE DEF new
  <2>4. invoices'[Len(invoices) + 1] = new
    BY <1>2, <2>3
  <2> QED BY <2>2, <2>3, <2>4 DEF PaidAgain
<1> QED BY <1>1, <1>2 DEF Issue

LEMMA PaidAgainByPeople ==
  ASSUME IInv, ~PaidAgain, People \/ TimePasses,
         booking.total' # booking.total /\ booking.invoice # 0
           /\ invoices[booking.invoice].status = "paid" /\ Outstanding' > 0
           => Outstanding' # invoices[booking.invoice].amount
  PROVE  ~PaidAgain'
<1>t. TypeOK /\ booking \in Booking /\ booking.total \in Nat /\ booking.paid \in Nat
  BY DEF IInv, TypeOK, Booking
<1>1. ASSUME NEW total, NEW method, Change(total, method)
      PROVE  ~PaidAgain'
  <2> DEFINE due == total > booking.paid
             b == [booking EXCEPT !.total = total, !.method = method,
                     !.status = IF due THEN Unpaid(method) ELSE "paid"]
  <2>1. Save(b) /\ invoices' = invoices
    BY <1>1 DEF Change, papers
  <2>2. /\ {"total", "paid", "invoice", "revision"} \subseteq DOMAIN b
        /\ b.paid = booking.paid /\ b.invoice = booking.invoice
    BY <1>t DEF Booking
  <2> HIDE DEF b
  <2>3. booking'.paid = booking.paid /\ booking'.invoice = booking.invoice
    BY <2>1, <2>2, SavedSums
  <2>4. CASE booking'.total = booking.total
    BY <2>1, <2>3, <2>4, SumsQuiet DEF SumsKept
  <2>5. CASE booking'.total # booking.total
    BY <2>1, <2>3, <2>5 DEF PaidAgain
  <2> QED BY <2>4, <2>5
<1>2. ASSUME MarkPaid
      PROVE  ~PaidAgain'
  <2> DEFINE b == [booking EXCEPT !.paid = @ + Outstanding, !.status = "paid"]
  <2>1. Save(b)
    BY <1>2 DEF MarkPaid
  <2>2. /\ {"total", "paid", "invoice", "revision"} \subseteq DOMAIN b
        /\ b.total = booking.total /\ b.paid = booking.paid + Outstanding
    BY <1>t DEF Booking
  <2> HIDE DEF b
  <2>3. booking'.total = booking.total /\ booking'.paid = booking.paid + Outstanding
    BY <2>1, <2>2, SavedSums
  <2>4. ~(booking'.total > booking'.paid)
    BY <1>t, <2>3 DEF Outstanding
  <2>5. Outstanding' = 0
    BY <2>4 DEF Outstanding
  <2> QED BY <2>5 DEF PaidAgain
<1>3. ASSUME Cancel
      PROVE  ~PaidAgain'
  <2> DEFINE b == [booking EXCEPT !.live = FALSE]
  <2>1. Save(b) /\ invoices' = invoices
    BY <1>3 DEF Cancel, papers
  <2>2. /\ {"total", "paid", "invoice", "revision"} \subseteq DOMAIN b
        /\ b.total = booking.total /\ b.paid = booking.paid /\ b.invoice = booking.invoice
    BY <1>t DEF Booking
  <2> HIDE DEF b
  <2> QED BY <2>1, <2>2, SavedSums, SumsQuiet DEF SumsKept
<1>4. ASSUME IssueByHand
      PROVE  ~PaidAgain'
  BY <1>4, <1>t, IssuedIsOpen DEF IssueByHand
<1>5. ASSUME SendInvoice \/ TimePasses
      PROVE  ~PaidAgain'
  BY <1>5, SumsQuiet DEF SendInvoice, TimePasses, document, papers, SumsKept
<1> QED BY <1>1, <1>2, <1>3, <1>4, <1>5 DEF People

LEMMA PaidAgainByTick ==
  ASSUME IInv, ~PaidAgain, NEW w \in Worker,
         Step(w) \/ Fail(w) \/ Crash(w) \/ \E j \in DOMAIN jobs : Claim(w, j)
  PROVE  ~PaidAgain'
<1>t. TypeOK /\ booking \in Booking
  BY DEF IInv, TypeOK
<1>1. CASE Create(w)
  <2>1. Issue \/ UNCHANGED <<booking, invoices>>
    BY <1>1 DEF Create
  <2> QED BY <1>t, <2>1, IssuedIsOpen, SumsQuiet DEF SumsKept
<1>2. CASE Decide(w)
  <2> DEFINE b == [booking EXCEPT !.status = IF proc[w].kind = "postpay" THEN StatusOf(proc[w].mark) ELSE @]
  <2>1. (booking' = booking \/ Save(b)) /\ invoices' = invoices
    BY <1>2 DEF Decide, papers
  <2>2. /\ {"total", "paid", "invoice", "revision"} \subseteq DOMAIN b
        /\ b.total = booking.total /\ b.paid = booking.paid /\ b.invoice = booking.invoice
    BY <1>t DEF Booking
  <2> HIDE DEF b
  <2> QED BY <2>1, <2>2, SavedSums, SumsQuiet DEF SumsKept
<1>3. CASE ~Create(w) /\ ~Decide(w)
  <2>1. UNCHANGED <<booking, invoices>>
    BY <1>3 DEF Step, Render, Mail, JobDone, JobFailed, Release, Sweep, Judge,
                Fail, Crash, Claim, document, papers
  <2> QED BY <2>1, SumsQuiet DEF SumsKept
<1> QED BY <1>1, <1>2, <1>3

\* What is due by invoice is asked for, once the jobs are done, by an invoice that
\* is still to be paid, unless a change of the price leaves outstanding just what
\* the paid invoice asked for: the order of MCInvoices_open.cfg is the only one
\* (operations.payments.ts:627-629).
THEOREM SupplementIsAskedFor == Spec /\ NoEqualSupplement => []AskedIsOpen
<1> DEFINE Unequal == booking.total' # booking.total /\ booking.invoice # 0
                        /\ invoices[booking.invoice].status = "paid" /\ Outstanding' > 0
                        => Outstanding' # invoices[booking.invoice].amount
<1>1. Init => ~PaidAgain
  BY DEF Init, PaidAgain
<1>2. IInv /\ ~PaidAgain /\ [Next]_vars /\ [Unequal]_vars => ~PaidAgain'
  <2> SUFFICES ASSUME IInv, ~PaidAgain, [Next]_vars, [Unequal]_vars PROVE ~PaidAgain'
    OBVIOUS
  <2>1. CASE UNCHANGED vars
    BY <2>1, SumsQuiet DEF vars, document, papers, SumsKept
  <2>2. ASSUME Unequal, People \/ TimePasses PROVE ~PaidAgain'
    BY <2>2, PaidAgainByPeople
  <2>3. ASSUME NEW j \in DOMAIN jobs, LeaseLapses(j) PROVE ~PaidAgain'
    BY <2>3, SumsQuiet DEF LeaseLapses, document, papers, SumsKept
  <2> QED BY <2>1, <2>2, <2>3, PaidAgainByTick DEF Next
<1>3. IInv /\ ~PaidAgain => AskedIsOpen
  <2> SUFFICES ASSUME IInv, ~PaidAgain, Owed, \A j \in DOMAIN jobs : jobs[j].state = "done"
               PROVE  booking.invoice # 0 /\ invoices[booking.invoice].status = "issued"
    BY DEF AskedIsOpen
  <2>1. Asked
    BY DEF IInv, InvoiceComing
  <2>2. booking.invoice \in DOMAIN invoices
    BY <2>1 DEF IInv, TypeOK, Asked
  <2>3. invoices[booking.invoice].status \in {"issued", "paid"}
    <3>1. invoices \in Seq(Invoice)
      BY DEF IInv, TypeOK
    <3>2. invoices[booking.invoice] \in Invoice
      BY <2>2, <3>1
    <3> QED BY <3>2 DEF Invoice
  <2>4. Outstanding > 0
    BY DEF IInv, TypeOK, Booking, Owed, Outstanding
  <2> QED BY <2>1, <2>3, <2>4 DEF Asked, PaidAgain
<1> QED BY <1>1, <1>2, <1>3, Invariant, PTL DEF Spec, NoEqualSupplement
=============================================================================
