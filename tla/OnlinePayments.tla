--------------------------- MODULE OnlinePayments ---------------------------
(***************************************************************************)
(* The online payment of one hold: OperationsPayments with its intent,     *)
(* outbox jobs and worker, the payment provider (YooKassa), and the        *)
(* customer who pays, comes back, cancels or goes away.                    *)
(*                                                                         *)
(* createPayment and checkPayment alternate local commands with calls of   *)
(* the provider.  Each command is one action (CommandStore says why) and   *)
(* each call of the provider is one; between them everything may happen:   *)
(* another process runs the same function, the hold lapses, the answer is  *)
(* lost, the process dies.  A command whose key has a receipt does nothing *)
(* and returns as before, which the receipts variable records.             *)
(*                                                                         *)
(* Times are kept as far as the code compares them: whether the hold's 15  *)
(* minutes are over, and whether the intent is 23 hours old.               *)
(***************************************************************************)
EXTENDS Integers

CONSTANTS
  Payment,    \* ids the provider may give
  Worker,     \* backend processes, each with its tick
  Visitor,    \* HTTP requests: the checkout that created the hold, status polls
  Events,     \* what notifications tell: that a payment succeeded, that it ended
  MaxFaults   \* bound on lost answers, refused calls and crashes together

NoPayment == "none"

ASSUME ProcessAssumption == /\ Worker \cap Visitor = {}
                            /\ NoPayment \notin Payment
                            /\ Events \subseteq {"succeeded", "canceled"}
                            /\ MaxFaults \in Nat

Proc == Worker \cup Visitor

VARIABLES
  status,      \* of the booking: "hold", "cancelled", "resolution" or "settled"
  attention,   \* its requires_attention
  pid,         \* its provider_payment_id, with payment_url
  lapsed,      \* its expires_at has passed
  intent,      \* the payment intent: "none", "young", "old"
  intentPid,   \* its provider_payment_id
  local,       \* mstyle_ops_payments: "none", "pending", "paid", "cancelled"
  receipts,    \* keys of the commands that have run
  jobs,        \* outbox: payment.create, and a payment.check for every event
  proc,        \* what each process is doing
  provider,    \* the provider's payments
  remembered,  \* the payment the provider keeps for the idempotency key
  early,       \* checks that are done and saw a pending payment (for the properties)
  faults

booking == <<status, attention, pid, lapsed>>
records == <<intent, intentPid, local, receipts>>
external == <<provider, remembered>>
vars == <<booking, records, jobs, early, proc, external, faults>>

-----------------------------------------------------------------------------
Final == {"succeeded", "canceled"}

\* A job of the outbox by its key: a check is queued for an event of a payment.
CreateJob == <<"create", NoPayment>>
Check == Events \X Payment
JobId == {CreateJob} \cup Check

\* What a process does besides a job: the expiry part of a tick, a request.
Sweeping == <<"sweep", NoPayment>>
Visit == <<"visit", NoPayment>>

Stage == {"idle", "read", "intent", "lookup", "uncertain", "post", "attach", "get",
          "local", "adopt", "result", "jobdone", "jobfailed", "sweep", "expire"}

\* pay and seen: the payment at hand and its status, as the provider gave it.
ProcState ==
  [pc: Stage, job: JobId \cup {Sweeping, Visit},
   pay: Payment \cup {NoPayment}, seen: {"pending"} \cup Final]

Idle == [pc |-> "idle", job |-> Visit, pay |-> NoPayment, seen |-> "pending"]

IntentCommand == <<"intent", NoPayment>>
UncertainCommand == <<"uncertain", NoPayment>>
ExpireCommand == <<"expire", NoPayment>>

Command == {IntentCommand, UncertainCommand, ExpireCommand}
           \cup (({"created"} \cup Final) \X Payment)

TypeOK ==
  /\ status \in {"hold", "cancelled", "resolution", "settled"}
  /\ attention \in BOOLEAN
  /\ pid \in Payment \cup {NoPayment}
  /\ lapsed \in BOOLEAN
  /\ intent \in {"none", "young", "old"}
  /\ intentPid \in Payment \cup {NoPayment}
  /\ local \in [Payment -> {"none", "pending", "paid", "cancelled"}]
  /\ receipts \subseteq Command
  /\ jobs \in [JobId -> [state: {"none", "pending", "running", "overrun", "done"},
                         lease: Worker \cup {"none"}]]
  /\ proc \in [Proc -> ProcState]
  /\ provider \in [Payment -> {"absent", "pending"} \cup Final]
  /\ remembered \in Payment \cup {NoPayment}
  /\ early \subseteq Check
  /\ faults \in 0 .. MaxFaults

Job(state, lease) == [state |-> state, lease |-> lease]

\* A hold has just been created, with its payment.create job.
Init ==
  /\ status = "hold" /\ attention = FALSE /\ pid = NoPayment /\ lapsed = FALSE
  /\ intent = "none" /\ intentPid = NoPayment
  /\ local = [p \in Payment |-> "none"]
  /\ receipts = {}
  /\ jobs = [j \in JobId |-> IF j = CreateJob THEN Job("pending", "none")
                                              ELSE Job("none", "none")]
  /\ early = {}
  /\ proc = [w \in Proc |-> Idle]
  /\ provider = [p \in Payment |-> "absent"]
  /\ remembered = NoPayment
  /\ faults = 0

At(w, stage) == proc[w].pc = stage

Goto(w, stage) == proc' = [proc EXCEPT ![w].pc = stage]

Handle(w, stage, p, seen) ==
  proc' = [proc EXCEPT ![w] = [pc |-> stage, job |-> proc[w].job, pay |-> p, seen |-> seen]]

\* Where a process goes on when createPayment or checkPayment returns, and when
\* it throws: a job is marked done or to be retried, an expiry goes on or is
\* given up with the rest of the tick, a request ends.
Returned(w) ==
  CASE proc[w].job \in JobId ->
         [Idle EXCEPT !.pc = "jobdone", !.job = proc[w].job, !.seen = proc[w].seen]
    [] proc[w].job = Sweeping -> [Idle EXCEPT !.pc = "expire", !.job = Sweeping]
    [] proc[w].job = Visit -> Idle

Thrown(w) ==
  CASE proc[w].job \in JobId -> [Idle EXCEPT !.pc = "jobfailed", !.job = proc[w].job]
    [] proc[w].job \in {Sweeping, Visit} -> Idle

Return(w) == proc' = [proc EXCEPT ![w] = Returned(w)]
Throw(w) == proc' = [proc EXCEPT ![w] = Thrown(w)]

-----------------------------------------------------------------------------
\* What the commands do.

\* Variant: commands leave no receipts.
NeverRan(command) == FALSE

Ran(command) == command \in receipts

Paid == \E p \in Payment : local[p] = "paid"

\* cancelInTransaction; the receipt is of the command that calls it.
CancelBooking ==
  /\ status' = "cancelled"
  /\ attention' = Paid
  /\ UNCHANGED <<pid, lapsed>>

\* attachProviderPayment.
AttachPayment(p) ==
  IF Ran(<<"created", p>>) THEN UNCHANGED <<booking, records>>
  ELSE
    /\ local' = [local EXCEPT ![p] = IF @ = "none" THEN "pending" ELSE @]
    /\ intentPid' = p
    /\ pid' = p
    /\ receipts' = receipts \cup {<<"created", p>>}
    /\ UNCHANGED <<status, attention, lapsed, intent>>

\* Variant: only an occupied room is a conflict.
RoomConflict(roomTaken) == roomTaken

Conflict(roomTaken) == status = "cancelled" \/ roomTaken

\* 'payment-result:<id>:succeeded' and ':canceled'.  Another booking can have
\* the room only once this hold blocks it no longer.
PaymentSucceeded(p) ==
  \E roomTaken \in BOOLEAN :
    /\ roomTaken => lapsed \/ status = "cancelled"
    /\ local' = [local EXCEPT ![p] = "paid"]
    /\ status' = IF status = "cancelled" THEN "cancelled"
                 ELSE IF Conflict(roomTaken) THEN "resolution" ELSE "settled"
    /\ attention' = Conflict(roomTaken)
    /\ UNCHANGED <<pid, lapsed>>

PaymentCanceled(p) ==
  /\ local' = [local EXCEPT ![p] = IF @ = "paid" THEN @ ELSE "cancelled"]
  /\ IF status = "hold" THEN CancelBooking ELSE UNCHANGED booking

-----------------------------------------------------------------------------
\* createPayment.

\* The checkout that created the hold, or a repeat of it, calls it directly.
Checkout(v) ==
  /\ At(v, "idle")
  /\ proc' = [proc EXCEPT ![v] = [Idle EXCEPT !.pc = "read"]]
  /\ UNCHANGED <<booking, records, jobs, early, external, faults>>

Read(w) ==
  /\ At(w, "read")
  /\ IF status = "hold" THEN Goto(w, "intent") ELSE Return(w)
  /\ UNCHANGED <<booking, records, jobs, early, external, faults>>

\* The first run needs a hold; a run that finds the receipt looks at nothing.
Intend(w) ==
  /\ At(w, "intent")
  /\ \/ /\ Ran(IntentCommand)
        /\ Goto(w, "lookup")
        /\ UNCHANGED records
     \/ /\ ~Ran(IntentCommand) /\ status = "hold"
        /\ intent' = IF intent = "none" THEN "young" ELSE intent
        /\ receipts' = receipts \cup {IntentCommand}
        /\ Goto(w, "lookup")
        /\ UNCHANGED <<intentPid, local>>
     \/ /\ ~Ran(IntentCommand) /\ status # "hold"
        /\ Throw(w)
        /\ UNCHANGED records
  /\ UNCHANGED <<booking, jobs, early, external, faults>>

\* Variant: the request is repeated however old the intent is.
AlwaysRequest == intentPid = NoPayment

MayRequest == intentPid = NoPayment /\ intent = "young"

\* What the intent says decides how it goes on.
Lookup(w) ==
  /\ At(w, "lookup")
  /\ \/ MayRequest /\ Goto(w, "post")
     \/ intentPid # NoPayment /\ Handle(w, "get", intentPid, "pending")
     \/ intentPid = NoPayment /\ ~MayRequest /\ Goto(w, "uncertain")
  /\ UNCHANGED <<booking, records, jobs, early, external, faults>>

\* 'payment-uncertain:<id>' looks at nothing again, whatever another process has
\* found out since.
Uncertain(w) ==
  /\ At(w, "uncertain")
  /\ attention' = (attention \/ ~Ran(UncertainCommand))
  /\ receipts' = receipts \cup {UncertainCommand}
  /\ Throw(w)
  /\ UNCHANGED <<status, pid, lapsed, intent, intentPid, local, jobs, early, external, faults>>

\* The provider answers a repeated request with the payment it remembers.  The
\* answer may still be lost: Fail in the next step.
Post(w) ==
  /\ At(w, "post")
  /\ \/ /\ remembered = NoPayment
        /\ \E p \in Payment :
             /\ provider[p] = "absent"
             /\ provider' = [provider EXCEPT ![p] = "pending"]
             /\ remembered' = p
             /\ Handle(w, "attach", p, "pending")
     \/ /\ remembered # NoPayment
        /\ Handle(w, "attach", remembered, provider[remembered])
        /\ UNCHANGED external
  /\ UNCHANGED <<booking, records, jobs, early, faults>>

Attach(w) ==
  /\ At(w, "attach")
  /\ AttachPayment(proc[w].pay)
  /\ IF proc[w].seen \in Final THEN Goto(w, "get") ELSE Return(w)
  /\ UNCHANGED <<jobs, early, external, faults>>

-----------------------------------------------------------------------------
\* checkPayment.

\* A customer's poll of publicStatus.
Poll(v) ==
  /\ At(v, "idle")
  /\ pid # NoPayment /\ ~Paid
  /\ proc' = [proc EXCEPT ![v] = [Idle EXCEPT !.pc = "get", !.pay = pid]]
  /\ UNCHANGED <<booking, records, jobs, early, external, faults>>

Get(w) ==
  LET seen == provider[proc[w].pay]
  IN
  /\ At(w, "get")
  /\ IF seen \in Final
       THEN Handle(w, "local", proc[w].pay, seen)
       ELSE Return(w)
  /\ UNCHANGED <<booking, records, jobs, early, external, faults>>

\* The payment is known here, or is adopted by the intent it was made for.
Local(w) ==
  LET p == proc[w].pay
  IN
  /\ At(w, "local")
  /\ \/ local[p] # "none" /\ Goto(w, "result")
     \/ local[p] = "none" /\ intent = "none" /\ Return(w)
     \/ /\ local[p] = "none" /\ intent # "none"
        /\ IF intentPid \in {NoPayment, p} THEN Goto(w, "adopt") ELSE Throw(w)
  /\ UNCHANGED <<booking, records, jobs, early, external, faults>>

Adopt(w) ==
  /\ At(w, "adopt")
  /\ AttachPayment(proc[w].pay)
  /\ Goto(w, "result")
  /\ UNCHANGED <<jobs, early, external, faults>>

Result(w) ==
  LET command == <<proc[w].seen, proc[w].pay>>
  IN
  /\ At(w, "result")
  /\ \/ /\ Ran(command)
        /\ UNCHANGED <<booking, records>>
     \/ /\ ~Ran(command)
        /\ IF proc[w].seen = "succeeded" THEN PaymentSucceeded(proc[w].pay)
                                         ELSE PaymentCanceled(proc[w].pay)
        /\ receipts' = receipts \cup {command}
        /\ UNCHANGED <<intent, intentPid>>
  /\ Return(w)
  /\ UNCHANGED <<jobs, early, external, faults>>

-----------------------------------------------------------------------------
\* tick: one job of the outbox, then the lapsed holds.

Claimable(j) == jobs[j].state \in {"pending", "overrun"}

Claim(w, j) ==
  /\ At(w, "idle")
  /\ Claimable(j)
  /\ jobs' = [jobs EXCEPT ![j] = Job("running", w)]
  /\ proc' = [proc EXCEPT ![w] =
       IF j = CreateJob THEN [Idle EXCEPT !.pc = "read", !.job = j]
                        ELSE [Idle EXCEPT !.pc = "get", !.job = j, !.pay = j[2]]]
  /\ UNCHANGED <<booking, records, early, external, faults>>

\* No job is due: the next attempt at a failed job waits for its retry_at.
NoJob(w) ==
  /\ At(w, "idle")
  /\ Goto(w, "sweep")
  /\ UNCHANGED <<booking, records, jobs, early, external, faults>>

\* The outcome is written only while the lease is this tick's.
Release(w, state) ==
  LET j == proc[w].job
  IN
  jobs' = IF jobs[j].lease = w THEN [jobs EXCEPT ![j] = Job(state, "none")] ELSE jobs

\* A check is done, too, when the payment was found pending.
JobDone(w) ==
  LET j == proc[w].job
  IN
  /\ At(w, "jobdone")
  /\ Release(w, "done")
  /\ early' = IF j \in Check /\ jobs[j].lease = w /\ proc[w].seen = "pending"
                THEN early \cup {j} ELSE early
  /\ proc' = [proc EXCEPT ![w] = [Idle EXCEPT !.pc = "sweep"]]
  /\ UNCHANGED <<booking, records, external, faults>>

\* Variant: a failed job is given up.
GiveUp(w) ==
  /\ At(w, "jobfailed")
  /\ Release(w, "done")
  /\ proc' = [proc EXCEPT ![w] = [Idle EXCEPT !.pc = "sweep"]]
  /\ UNCHANGED <<booking, records, early, external, faults>>

JobFailed(w) ==
  /\ At(w, "jobfailed")
  /\ Release(w, "pending")
  /\ proc' = [proc EXCEPT ![w] = [Idle EXCEPT !.pc = "sweep"]]
  /\ UNCHANGED <<booking, records, early, external, faults>>

\* Variant: only lapsed holds with a payment are looked at.
LapsedPayment == status = "hold" /\ lapsed /\ pid # NoPayment

LapsedHold == status = "hold" /\ lapsed

Sweep(w) ==
  /\ At(w, "sweep")
  /\ proc' = [proc EXCEPT ![w] =
       IF ~LapsedHold THEN Idle
       ELSE IF pid = NoPayment THEN [Idle EXCEPT !.pc = "expire", !.job = Sweeping]
       ELSE [Idle EXCEPT !.pc = "get", !.job = Sweeping, !.pay = pid]]
  /\ UNCHANGED <<booking, records, jobs, early, external, faults>>

Expire(w) ==
  /\ At(w, "expire")
  /\ IF LapsedHold /\ ~Ran(ExpireCommand) THEN CancelBooking ELSE UNCHANGED booking
  /\ receipts' = receipts \cup {ExpireCommand}
  /\ proc' = [proc EXCEPT ![w] = Idle]
  /\ UNCHANGED <<intent, intentPid, local, jobs, early, external, faults>>

-----------------------------------------------------------------------------
\* What goes wrong.

\* A call of the provider or of the database fails, or its answer is lost.
Fail(w) ==
  /\ ~At(w, "idle")
  /\ faults < MaxFaults /\ faults' = faults + 1
  /\ \/ proc[w].pc \in {"jobfailed", "sweep", "expire"}
        /\ proc' = [proc EXCEPT ![w] = Idle]
     \/ proc[w].pc \notin {"jobfailed", "sweep", "expire"}
        /\ Throw(w)
  /\ UNCHANGED <<booking, records, jobs, early, external>>

\* A process dies with its job leased, and is started again.
Crash(w) ==
  /\ ~At(w, "idle")
  /\ faults < MaxFaults /\ faults' = faults + 1
  /\ proc' = [proc EXCEPT ![w] = Idle]
  /\ UNCHANGED <<booking, records, jobs, early, external>>

\* Two minutes pass.
LeaseLapses(j) ==
  /\ jobs[j].state = "running"
  /\ jobs' = [jobs EXCEPT ![j].state = "overrun"]
  /\ UNCHANGED <<booking, records, early, proc, external, faults>>

-----------------------------------------------------------------------------
\* The customer, the administrator, the provider and time.

\* customerCancel, or an administrator's cancel.
Cancel ==
  /\ status # "cancelled"
  /\ CancelBooking
  /\ UNCHANGED <<records, jobs, early, proc, external, faults>>

\* Fifteen minutes pass.
Lapse ==
  /\ ~lapsed
  /\ lapsed' = TRUE
  /\ UNCHANGED <<status, attention, pid, records, jobs, early, proc, external, faults>>

\* Twenty-three hours pass.
IntentAges ==
  /\ lapsed /\ intent = "young"
  /\ intent' = "old"
  /\ UNCHANGED <<booking, intentPid, local, receipts, jobs, early, proc, external, faults>>

\* Twenty-four: the provider forgets the key.  A request takes at most 25
\* seconds, so none that was made before the 23 hours is still on its way.
Forget ==
  /\ intent = "old" /\ remembered # NoPayment
  /\ \A w \in Proc : ~At(w, "post")
  /\ remembered' = NoPayment
  /\ UNCHANGED <<booking, records, jobs, early, proc, provider, faults>>

\* The payment succeeds, also one whose creation was not answered here, or ends
\* without money.
Settle(p, outcome) ==
  /\ provider[p] = "pending"
  /\ provider' = [provider EXCEPT ![p] = outcome]
  /\ UNCHANGED <<booking, records, jobs, early, proc, remembered, faults>>

\* A notification is only a hint to look: it may come before the payment has
\* ended, or name an event that did not happen.  Its key is queued once, so the
\* same event later adds nothing.  (A look for an id that the provider does not
\* know fails and is tried again, as if the hint came later.)
Webhook(event, p) ==
  /\ provider[p] # "absent"
  /\ jobs[<<event, p>>].state = "none"
  /\ jobs' = [jobs EXCEPT ![<<event, p>>] = Job("pending", "none")]
  /\ UNCHANGED <<booking, records, early, proc, external, faults>>

-----------------------------------------------------------------------------
Step(w) ==
  \/ Read(w) \/ Intend(w) \/ Lookup(w) \/ Uncertain(w) \/ Post(w) \/ Attach(w)
  \/ Get(w) \/ Local(w) \/ Adopt(w) \/ Result(w)
  \/ JobDone(w) \/ JobFailed(w) \/ Sweep(w) \/ Expire(w)

Next ==
  \/ \E w \in Proc : Step(w) \/ Fail(w) \/ Crash(w)
  \/ \E w \in Worker : NoJob(w) \/ \E j \in JobId : Claim(w, j)
  \/ \E v \in Visitor : Checkout(v) \/ Poll(v)
  \/ \E j \in JobId : LeaseLapses(j)
  \/ \E p \in Payment : \/ \E outcome \in Final : Settle(p, outcome)
                         \/ \E event \in Events : Webhook(event, p)
  \/ Cancel \/ Lapse \/ IntentAges \/ Forget

Spec == Init /\ [][Next]_vars

\* The worker ticks every ten seconds and a started tick goes on; a job that is
\* due again and again is taken (jobs are taken in the order of retry_at, which
\* a failure moves back); time passes; the provider repeats a notification
\* until it is accepted.
Fairness ==
  /\ \A w \in Worker : WF_vars(Step(w)) /\ WF_vars(NoJob(w))
  /\ \A j \in JobId : /\ SF_vars(\E w \in Worker : Claim(w, j))
                      /\ WF_vars(LeaseLapses(j))
  /\ \A p \in Payment, e \in Events : WF_vars(provider[p] = e /\ Webhook(e, p))
  /\ WF_vars(Lapse)

FairSpec == Spec /\ Fairness

-----------------------------------------------------------------------------
\* Properties.

\* The customer is never asked to pay twice: however often the creation is
\* retried, by the worker and by the checkout, after lost answers and crashes,
\* the provider holds one payment for the booking.
OnePayment ==
  \A p, q \in Payment : provider[p] # "absent" /\ provider[q] # "absent" => p = q

\* Money that was received for a booking that does not take place is flagged.
MoneyIsFlagged == Paid /\ status \in {"cancelled", "resolution"} => attention

\* A result is applied once: a second look at the payment, by whoever, never
\* takes back what the first decided about the room.
ResultIsFinal ==
  [][/\ status = "settled" => status' \in {"settled", "cancelled"}
     /\ status = "resolution" => status' \in {"resolution", "cancelled"}]_vars

\* A creation whose outcome is unknown stays flagged for an administrator until
\* the payment is found.
UncertainIsFlagged ==
  Ran(UncertainCommand) /\ (\A p \in Payment : local[p] = "none") => attention

\* The booking as an online hold.
StageNow ==
  CASE status = "hold" -> IF lapsed THEN "lapsed" ELSE "hold"
    [] status = "settled" -> "booked"
    [] status = "resolution" -> "conflict"
    [] status = "cancelled" -> "cancelled"

MoneyNow ==
  IF Paid THEN "received"
  ELSE IF \E p \in Payment : local[p] = "cancelled" THEN "void" ELSE "awaited"

Hold == INSTANCE OnlineHold WITH
  stage <- StageNow, money <- MoneyNow, flag <- attention

\* Retries, lost answers, overlapping workers and late notifications do to the
\* booking what one payment with one outcome does, applied once.
ImplementsHold == Hold!Spec

\* What has to happen is never taken for done: a check that is done has applied
\* its payment's success, unless it looked before that, a creation that is done
\* has left the hold an address to pay at, and the key of an expiry is used up
\* only when the hold has ended.  (Workers whose lease lapsed and repeated
\* commands are what could.)
NothingSkipped ==
  /\ \A j \in Check \ early :
       jobs[j].state = "done" /\ provider[j[2]] = "succeeded" => local[j[2]] = "paid"
  /\ jobs[CreateJob].state = "done" /\ status = "hold" => pid # NoPayment
  /\ Ran(ExpireCommand) => status # "hold"

\* Received money reaches the booking's records, whether the hold still waits,
\* has lapsed or was cancelled, whether or not its creation was answered, and
\* whoever failed on the way, unless a hint that came before used up the key of
\* its notification.
MoneySettles ==
  \A p \in Payment :
    provider[p] = "succeeded" ~> local[p] = "paid" \/ <<"succeeded", p>> \in early

\* A hold that has lapsed is ended: paid for, or cancelled and its room free.
HoldEnds == lapsed ~> status # "hold"
=============================================================================
