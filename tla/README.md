# Verification of pass24front: bookings, payments, support and login

pass24front is a NestJS backend with a Next.js front end for a group of business
centres: visitors' passes, residents' profiles, and, after a move from an older
WordPress site (Mstyle), the *operations*: room bookings, online payments,
resident hours, invoices and support tickets. This directory holds TLA+ modules
for the operations, for the support desk with its mirror in Bitrix24 and for the
residents' login, the TLC configurations that check them on small instances, and
TLAPS proofs of their main properties for every value of the constants.

To check: `tlc -config MCBookings_rooms.cfg MCBookings.tla` (and the other
`.cfg` files), `tlapm BookingsProofs.tla` (and the other `*Proofs.tla`).

## 1. The system and its parts

| Part | State | Operations | Meets |
|---|---|---|---|
| **Bookings** `operations.bookings.ts`, `operations.rules.ts` | `mstyle_ops_bookings`, manual payments | quote, create, repeat, block, confirm, mark-paid, resolve-attention, comment, cancel, customer cancel, edit, transfer, extend | hours (in the same transaction), payments (results call back into it), store |
| **Resident hours** `operations.hours.ts` | `hours_accounts`, `hours_ledger` | ensure (lazy renewal and quota change), change, adjust, refund | bookings; the worker renews |
| **Command store** `operations.store.ts` | ownership document, `commands` (receipts), counters, outbox | command, transaction, receipt, assertWritable, enqueue | everything that writes |
| **Online payments** `operations.payments.ts` | `payment_intents`, `payments`, outbox jobs | createPayment, checkPayment, webhook, public status, tick (a job, expiry, renewals) | bookings, YooKassa over HTTP |
| **Invoices, overdue sweep** `operations.payments.ts` | `invoices`, outbox jobs, `payment_policy` of bookings, `profile_policies` | invoice, sendInvoice, invoicePdf, tick (a job, the sweep) | bookings (change, mark-paid, cancel), mail |
| **Data move** `operations.migration.ts`, `scripts/operations-migrate.cjs` | ownership, `migration_lock`, digest, every collection | check, import, verify, pause, open, rollback-before-open | the store's fence |
| Catalogue `operations.catalog.ts` | none | quote: segments, prices, hours | bookings |
| Identity, HTTP API of operations | none | who may act on what; routes | bookings, support |
| **Support** `operations.support.ts` | tickets, messages, attachments, sequence counters | create, message, reply, status, assign, read, upload | Bitrix24 through the outbox |
| **Bitrix24** `integrations/bitrix24` | worker lease, delivery states on tickets and messages, company of a tenant | tick: deliver one job, poll five tickets, import replies; linkTenantCompany | support, the portal |
| **Mstyle v2** `integrations/mstyle-v2` | idempotency records, challenges, identities and their sessions, snapshots, guests, consents, change events, OAuth codes | private API of the site: start, resend, verify, poll, login, session check; snapshots, guests | accounts of Pass (another database); bookings take snapshots and guest parties |
| Passes `passes/` | passes, templates | create, approve, use, expire | notifications |
| Authentication, administration `auth/`, `admin/` | users, pending registrations, sessions | register, confirm, invite, reset, block | everything; the accounts behind the identities of Mstyle v2 |
| Office services, site settings, access, audit, notifications, mail, SMS, Telegram, site source | one collection or document each | single-document updates, or clients of outside services | |
| Front end, deployment | none | presentation | |

What is hard here is in the rows in bold; the first five were modelled first:

* **Interleaving.** HTTP requests, a ten-second worker in every process and an
  operator's shell write the same documents. What a handler reads before its
  transaction can be stale when the transaction runs.
* **Money arrives when it wants.** A payment can succeed after the hold has
  lapsed, was cancelled, or its room was given away; the answer to the creation
  of a payment can be lost; notifications come early, late or twice.
* **Two books.** Hours live in an account, in a ledger and as a copy on the
  booking; money lives in payments and as a status on the booking.
* **Jobs are repeated.** A job of the outbox that fails or outlives its lease runs
  again. What it did before must not be done twice, and what it decided from rows
  read earlier must still be right when it writes.
* **Two sides talk.** A request of a tenant exists as a ticket and as a card of a
  portal that loses answers and acts late; both sides write, edit and remove.
* **Two databases.** A login reads an account, an identity and a challenge that no
  transaction spans, while administrators change the account.
* **Ownership moves.** Data are imported, compared and opened without a
  transaction around the three, while commands are running.

`PROJECT.json` lists the hazards at their lines, with the properties that cover them.

## 2. Modules

| Module | Models | About |
|---|---|---|
| `RoomCalendar` | abstract | a calendar of rooms: occupy free cells, release |
| `OnlineHold` | abstract | one booking that is paid online: how its hold ends, what its money does, when it is flagged |
| `Bookings` | bookings, hours, the worker's effects on them | one action per command; implements `RoomCalendar` and, for every booking, `OnlineHold` |
| `MCBookings` | | instances, symmetry, a view |
| `BookingsProofs`, `BookingsLedgerProofs` | | proofs |
| `AtomicCommands` | abstract | what `command` promises its callers |
| `CommandStore` | the store over MongoDB's snapshot isolation | implements `AtomicCommands` |
| `MCCommandStore`, `CommandStoreProofs` | | instance, proofs |
| `OnlinePayments` | one hold's payment: HTTP, worker, provider | every call of the provider and every command is a step; implements `OnlineHold` |
| `MCOnlinePayments`, `OnlinePaymentsProofs` | | instances, proofs |
| `Invoices` | one booking paid later: its invoices, their mails, the overdue sweep | one action per command and per step of a tick |
| `MCInvoices`, `InvoicesProofs` | | instances, proofs |
| `Delivery` | abstract | one card, every message on it at most once and in order |
| `Desk` | a request, the worker and the portal | implements `Delivery` |
| `MCDesk`, `DeskProofs` | | instances, proofs |
| `Login` | code challenge, password, sessions, and the account behind them | one action per read, write or transaction of a call |
| `MCLogin`, `LoginProofs` | | instance, proofs |
| `Cutover` | the migration script, several shells at once | |
| `MCCutover`, `CutoverProofs` | | instance, proofs |

How they fit: `CommandStore` shows that a command is atomic, on current data and
executed at most once for a key. `Bookings`, `OnlinePayments`, `Invoices` and
`Desk` use that: a command is one action there, and only what happens *outside* commands is split
into steps. `Bookings` has every command that touches a booking but sees the
provider only through its results; `OnlinePayments` has the protocol with the
provider in full but one hold only; `Invoices` has what happens between a
change of the total and the customer's mail, for one booking. `OnlineHold` is where
`Bookings` and `OnlinePayments` meet: it says of a booking paid online what neither
the provider's protocol nor the other rooms may change, and both implement it.
`OnlinePayments`, which has no rooms, may lose its room only after it has lapsed;
`Bookings`, which has the rooms, is proved to keep that (`HeldRoomsAreFree`). The
account of
`Login` is the only state it shares with the rest, and no other module has it.

### Bookings

A booking's room and segments are a set of *cells*; the code's overlap of
half-open intervals in one room on one date is "the sets meet". `row` is the
document, `paid` the sum of its payments with status `paid`, `net` the ledger's
debits less credits, `account` the hours account, `quota` what the profile is
entitled to. `draft` is the row an extension or transfer was priced from before
its transaction (`change`, lines 933–1052); `sweep` the rows the overdue sweep
selected before its commands. `PaymentUncertain` may come whenever a booking that was
paid online is past its fifteen minutes, whatever became of it since the provider's
side looked: the command itself looks at nothing. `Free` is `conflicts`/`assertAvailable`;
`InitialPayment`, `CancelInTransaction`, `ApplyChange`, `Ensure`, `ChangeHours`
are the functions of these names. Actions correspond to handlers one to one
(`PROJECT.json`, "map").

Abstracted: permissions and identity checks, `prepay_required`, complete private
data, slots in the past and the other refusals before any write are chances not
to act (every action may simply not happen). Prices are any amount, the code's
quote is not computed. The statuses `draft` and `paid`, which only imports
produce, are left out. All residents book on one hours account of an active
profile. `online` is "open" from the creation of a hold: the provider's side is
`OnlinePayments`' business. A revision sent by a client is one it was shown.
An invoice changes a row only by incrementing its revision (`Touch`), as the
comment does.

### CommandStore

A call is `new`, has `read` (its first read fixes the snapshot), is `fenced`
(it has incremented `write_serial`), `committed` or `done`. MongoDB's behaviour
is external: writing a document that was written since the snapshot, or is being
written, conflicts and `withTransaction` starts again. Only conflicts on the
ownership document are modelled; others only add retries, which `Retry` allows
at any time. `Effect` is any function from documents to documents and `Writes`
any set, so a handler is anything that computes its writes from what it reads.

### OnlinePayments

`proc` says what each worker and each request is doing; the stages follow
`createPayment` (read, intent, lookup, uncertain, post, attach) and `checkPayment`
(get, local, adopt, result), between which anything may happen: between the lookup of
the intent and the command `uncertain`, too, another process may adopt the payment and
apply its outcome. Receipts of the
commands are kept because a repeated command does nothing. `Post` is the
provider's: it answers a repeated key with the payment it remembers. `Settle` ends
any payment the provider has, also one whose creation was never answered here.
`Webhook` queues a check for an event of a payment the provider has, whether or not
that event has happened: the code trusts no notification and only looks, and the key
of the job is used once for each event. A lost answer is `Fail` after `Post`; `Crash` leaves the job leased; `LeaseLapses` lets
another worker, or the same, claim it again while the first still runs.

`early` is history: the checks that are done and found their payment pending.

Abstracted: a hold cannot be edited, so the payment's amount is its total, and
amount checks never fail. Insufficient hours after payment and
resolve-attention are `Bookings`'. The provider keeps a key for 24 hours and the
code stops at 23; a request takes at most 25 seconds (`AbortSignal.timeout`), so
`Forget` waits until no request is on its way. Pausing is left out: a
paused worker is one that does not step (notifications are queued all the same).

### Invoices

`booking` holds the row and the sum of its payments, `policy` its
`payment_policy`; what the dates make of it is `policy.stage` (ahead, warned,
past), which only time moves on. `invoices` is the collection, the position being
the id; `jobs` the outbox with the key of each job, `receipts` the keys of the
worker's commands. `proc` is what a tick has in hand: the job it claimed, the
amount it rendered, or the row as the sweep read it. The sweep takes three steps:
`Sweep` reads the row with its dates (lines 914–922), `Judge` decides by the clock,
after the commands of the rows before it (923–935), and `Decide` writes what was
decided without deciding again. `policy.since` is the revision in which the dates were
set: when a change has set others since the row was read, how late the row was by its
old dates is left open. `Issue` is the transaction of `invoice` (lines 607–705),
`Change`, `MarkPaid` and `Cancel` are the handlers of `operations.bookings.ts`.
`Fail` is an error at any step (an error of the mail server leaves it open
whether the mail left), `Crash` leaves the job leased, `LeaseLapses` is two
minutes. A job whose command is refused, as for a cancelled booking, fails again
at every attempt, as it does in the code. `job.amount` and `late` are history:
what the administrator saw when the mail was queued, and whether the booking was
ever unpaid past its postpayment.

Abstracted: a resident whose data are complete; any total in a change (its price
is `Bookings`' business); issuers, payers and recipients; `due_at` given by hand;
rooms and hours; guests' bookings, which get no invoice by themselves.

### Desk

`ticket` and `messages` are the desk's documents, `link` the `bitrix`
subdocument, `jobs` the outbox, `run` the local variables of the worker's run (a
job or a poll), `deal`, `comments`, `told` the portal. A command of the desk is
one action; the worker takes one per call of the portal and per transaction: find
or create the card, list its comments, post a message, carry stage, assignee and
customer, notify, fetch and import replies. A call is answered, refused, or its
answer is lost; then a creation waits in `late` and may arrive at any later time,
which is why the code marks it `uncertain` and looks for it before trying again: the
card by its origin, a comment by its marker or by author and text among the ids that
are not linked and were not there before the attempt. The staff of the
portal comment, edit, remove, restore and move the card at any time.

Abstracted: one live worker (the lease is renewed by a timer); one request of
one tenant; text and files are one value; the format of markers; who may see the
request. Assumed: an update of the card (`crm.deal.update`) whose answer was lost has
been applied by the time the call fails, or never is. Only creations arrive late, and
an old assignee or client that arrives after a newer one is not modelled.

### Login

`account` is the user document in the database of Pass; `identity`, `challenge`,
`rows` (idempotency), `auths` (authentications) are Mstyle v2's. `calls` says
where every call of the API stands and what it has read: a dispatch reserves its
key, works, sends the mail and records the outcome; a resend loads the challenge
and saves it whole, as Mongoose does; `BeginConsume` and `Consume` are what the
transaction of a verification reads and commits, and it starts again on a
conflict. `LookUp` and `Refresh` are `refreshUserSecurity`, which every use of an
identity runs. Codes are numbered in the order they are issued, 0 stands for the
password; passwords are numbered. Changes of the account load and save in two
steps, so two of them can overlap and write the same `authVersion`.

Abstracted: one account, one identity, one challenge by mail; deadlines that have
passed are "lapsed"; wrong passwords, replays and rate limits change nothing. Deleted
accounts are left out, and invited ones are not accepted by a login.

### Cutover

A shell runs one command at a time; `import` locks, replaces the parts one by
one, records its digest, unlocks; `open` reads the ownership document, compares
part by part, looks at the digest and at the lock it read, and then updates.
`ClearLock` is the runbook's manual removal, after making sure the import of
that `export_id` is dead; what an operator does who does not make sure is not
modelled, and the properties do not promise anything then. Left out: running outbox jobs, the replica set, and
what `prepare` computes.

## 3. Runs

| Run | Question | Bounds |
|---|---|---|
| `bookings_rooms` | Can a room be promised twice, money be forgotten, a cancelled booking return? Is every online booking an `OnlineHold`? | 2 bookings, 2 cells, 3 methods, one amount, no hours |
| `bookings_life` | Does the status follow the money, and the row the ledger? Are hours ever overdrawn or returned twice? | 1 booking, all methods, amounts 0 and 1, total to 2, hours 0–1, quotas 0 and 1 (402,256 states) |
| `commands` | Is a command atomic, at most once, and without effect while Pass does not own the data? | 4 calls, 2 keys, 2 documents, versions to 5 |
| `payments` | Is one payment made and applied once, as `OnlineHold` says? Is nothing taken for done that is not? Does money settle and a hold end? | 1 worker, 1 visitor, 2 possible payments, 1 event, 1 fault (459,071 states) |
| `payments_uncertain` | *violated*: does the demand for reconciliation survive? | as above |
| `invoices` | Does every invoice, mail and mark that is due still come? Do mails show what was meant? Do marks and prepayment follow the dates? | 1 worker, invoice and postpay, total to 2, 2 events of people, 1 fault (1,543,650 states) |
| `invoices_open` | *violated*: is what is due asked for by an invoice still to be paid? | as above, no fault |
| `desk` | Is every message carried once, in order, and none forgotten? Do the two sides agree in the end? | 2 messages of the same text, 2 replies, 2 assignees, 1 company, 2 events (346,865 states) |
| `desk_link` | *violated*: does a company linked to a tenant reach its requests? | as above |
| `login` | Does a request send once, a code buy one session, a session end with its password and access? | 2 calls, 3 keys, 2 guesses, 3 codes, 3 events (4,500,238 states) |
| `cutover` | Do import and opening exclude each other? Is there a way back? | 2 shells, 2 exports, 2 parts |
| `cutover_open` | *violated*: is Pass opened on the data that was compared? | as above |

Why these bounds show the interesting cases. A conflict of rooms needs two
bookings and at most two cells, one they share and one to move to. A wrong
balance shows at the first unit, since debits are compared with the balance and
refunds with the debit; what separates "price of the change" from "price of the
whole" needs a total of 2. Write skew needs two documents, a duplicate a third
call and a reused key a fourth; the owner can be paused, opened and rolled back
within the five versions. A second payment needs a second id; one fault separates
"the provider acted" from "we recorded it", and crashes, lost answers and refused
calls share the budget; a lease that lapses under a live worker meets the
customer's request, which creates and checks the payment as a second worker
would. `Events` is `succeeded` alone: the notification of a payment that ended without
money does what the same hint for a payment that did not succeed does, and what
liveness needs of it the expiry does by itself. An invoice is replaced when two amounts differ, hence a total of 2; a
change after a payment and a change of method during the sweep take two events; one
change is enough to overtake a sweep between its reading and its decision.
In the desk, two messages of one text are what a lost answer can confuse, two
assignees what a late assignment can; an event is a fault or something the other
side does, and two of them make every pair. In the login three codes are a first,
one resent and one resent over a stale document; two calls race, a third key is
a repetition; three events are an overlap of two changes and a login.

Larger instances that pass and take too long to be kept: two bookings on one
hours account (802,000 states), two workers of the payment without liveness
(3,556,693, before early notifications were added), both events of the payment
without liveness (1,084,838), three events of the desk (6,300,000). Two workers of the invoices
are not exhausted. The proofs then remove the bounds from every safety property.

The type invariants of `Bookings`, `Desk`, `Login` and `Invoices`, the invariant that
a fenced command reads current data (`FencedIsCurrent`) and the inductive
invariants of the proofs were checked by TLC while they were written and are not
part of the runs: the proofs state them without bounds. `InvoiceComing` is a
conjunct of `NothingLost`.

`MaxMinutes`, `MaxTotal` bound an account, a draft and a correction; `MaxVersion`
stops the owner's switches; `MaxFaults` bounds faults; `MaxEvents` bounds what
people do (in `Desk` and `Login` faults as well); `MaxWords`, `MaxCodes` bound
messages and codes, `MaxAttempts` is the code's own limit. The view of `MCBookings`
replaces the growing revision by the only comparison made with it. Symmetry is
used in runs without liveness.

Deadlock is checked everywhere except in `commands`, `desk` and `login`, whose
calls, messages and requests are finite and come to rest.

**Fairness** (`payments`). Weak fairness of each started step and of an idle
worker's tick: the code is a loop on a ten-second timer and every await has a
timeout. Strong fairness of claiming a job: jobs are taken in the order of
`retry_at`, which every failure moves back, so a job due again and again is
taken. Leases and the fifteen minutes end because time passes. The provider
repeats the notification of a payment that succeeded until it is accepted, which
YooKassa documents; a hint that came before and used up its key ends that, as accepted
and queued for nothing, so `Webhook` is fair only while its key is free. No
fairness is assumed of the customer, the administrator or of faults, which are
bounded: with a provider that never answers nothing settles. `Invoices` assumes
the same of a tick, of claiming and of leases. `Desk` assumes weak fairness of the
worker's next step, and strong fairness of serving a job and of polling, since
the tick serves the oldest due job and polls the requests longest unpolled.
`CommandStore`, `Cutover`, `Bookings` and `Login` state safety only.

## 4. Findings

* **The demand for reconciliation is lost** (`UncertainIsFlagged`). After 23
  hours without an answer the booking is flagged, and the documentation requires
  a reconciliation. A cancellation, usually the expiry in the same tick, sets the
  flag to "some payment is recorded", which is false. If the customer had paid
  and the notification did not come through, nobody is told.
* **Pass can be opened on data that was not compared** (`OpenedIsVerified`). The
  update that opens checks for a pause and for no lock; the digest, the
  comparison and the lock were looked at before. Another import between them is
  not noticed.
* **A linked company does not reach a request** (`LinkReachesDeal`). Linking asks
  for the customer of the tenant's requests to be carried again by removing a
  mark; a worker that read the tenant before sets the mark after, and the card
  keeps its old client.
* **A supplement is not asked for** (`AskedIsOpen`). The current invoice is kept
  when its amount equals what is outstanding, even if it is paid: a booking of
  one hour, paid by invoice and extended by another hour, gets no second invoice.

Each of the four is also proved under a condition on the steps that excludes the
order of the trace, so that there is no other (section 5):

| property | holds for every instance if | theorem |
|---|---|---|
| `UncertainIsFlagged` | the booking is not cancelled while the payment is sought | `DemandStands` |
| `OpenedIsVerified`, at the first opening | no import takes the lock while a shell compares | `OpenedAsCompared` |
| `LinkReachesDeal` | no company is linked while the worker carries the customer | `LinkedCompanyArrives` |
| `AskedIsOpen` | no change of the price leaves outstanding what the paid invoice asked for | `SupplementIsAskedFor` |

Three properties that hold name an order of steps that the code allows and that breaks
what one would like to say; TLC finds each when the exception is left out.

* `NothingSkipped`, `MoneySettles`: a hint that comes before the payment has succeeded
  is looked at, done, and its key (`webhook:id:event`) is used up, so that the real
  notification adds nothing (`operations.payments.ts:383-391`). The money is then found
  only by the customer's poll or by the expiry, which ask for the payment the booking
  shows; after a cancellation only by the poll, and when the creation was not answered
  by nobody.
* `PrepayIsEarned`: a postpaid booking that the sweep has read is changed to another
  method or gets new dates before the sweep comes to it; when the old dates have passed
  by then, the profile must pay in advance though the booking was never unpaid after
  its last day. `PrepaysAreDeserved` proves that no other order does it.

The conditions are formulas of the theorems, not of the model: the code enforces
none of them. `OpenedAsCompared` speaks of the first opening, which is the move from
Mstyle; a shell that compared before it and opens again after a pause finds what
Pass itself has written since.

Read but not run: the overdue sweep writes `payment_status` to a row whose
method has changed since it was selected. The booking then shows `overdue` beside
a cash method; it does not get confirmed unpaid (`ConfirmedIsPaid`), and its mark
is corrected by a later sweep while it has a date (`MarkSettles`). The
`invoice.create` job of a cancelled booking is refused and tried again for good.
mark-paid marks the current invoice as paid although it asks for another sum, when
a change asked for a new one that the worker has not issued yet; if nothing is
outstanding when a first invoice is issued, it asks for 0. A booking made cheaper
than what was paid keeps an open invoice.

## 5. Proofs

The theorems hold for every set of bookings, cells, calls, workers, payments,
shells and exports, and every value of the bounds, from the named assumptions of
the modules only (`InputsAssumption`, `StoreAssumption`, `ProcessAssumption`, `ExportAssumption`,
`DeskAssumption`, `LoginAssumption`, `InvoicesAssumption`: amounts and minutes are
naturals, ids are not the sentinels, events and methods are those of the code).

* `BookingsProofs`: **TypeCorrect**, the balance's sign included, which rests on
  the check inside `ChangeHours` (**HoursReturnedOnce** states the sign with the
  ledger's). **RoomsAreSafe** by induction over the steps,
  each of which is a `CalendarStep` of one booking: the other rows stay, and the
  booking, if it is live afterwards, was live on the same cells or has cells that
  were free. **CalendarImplemented** maps such a step to an occupation, a release
  or a stutter of `RoomCalendar`.
* `BookingsLedgerProofs`: the inductive invariant is `Sound(b)` for every
  booking: `HoursOf` (the row's copy equals the ledger; a booking without an
  owner has no debit and no open payment; an absent row has no owner) together
  with `MoneyOf` ('paid' is covered, 'confirmed' is paid or postpay). It cannot
  be split, since a refund is right only if the copy is, and a payment's debit
  only if the row had an owner. A step on one booking leaves the others' rows,
  payments and ledger alone (`Local`). `DraftInv` says that a draft is of a row that
  exists and whose revision has not fallen behind it, and that while the two
  revisions agree so do the totals: hence the revision check suffices for
  **ExtensionsOnlyAdd**. For the online bookings `TableInv` adds `OnHold(b)`: a hold
  has an open payment and a limit; while the payment is open the booking is a hold
  or cancelled, nothing is paid and something is due; once it is settled and the
  booking was not cancelled, money came; a booking without its room is flagged. Each
  action is a step of `OnlineHold` for its booking and a stutter for the others
  (**HoldsImplemented**, and **EachIsAHold** as `Spec => Hold(b)!Spec`); an uncertain
outcome is `Doubt`, which a hold that has lapsed, was decided or was cancelled allows. The step
  that needs the rooms is the payment of a hold that has not lapsed: the hold
  itself keeps its cells, so `NoDoubleBooking` says they are free
  (**HeldRoomsAreFree**).
* `CommandStoreProofs`: `FenceInv`: a snapshot is never of a later version than
  the present one, and one of the present version *is* the present state; a fenced
  call is the holder at the present version; a committed call has its receipt.
  Hence a commit is `Execute` and all else `Reply`, `Switch` or a stutter
  (**StoreIsAtomic**).
* `OnlinePaymentsProofs`: `PayInv` is the types, `Known` (a payment anything
  refers to exists at the provider, and a result that was seen is that
  payment's) and `Single` (while the provider remembers the key there is no
  payment but that one; afterwards the intent is too old for another request and
  none is on its way). It gives **NeverPaidTwice**. With `Receipted` (a receipt
  of a success is of a payment that succeeded; a decided booking has one) it gives
  **ResultsAreFinal**; **MoneyNeverLost** is inductive beside `PayInv`.
  `SettleInv` adds what a repetition may rely on: `Applied` (records, receipts and
  the provider agree on each payment, and the booking is decided when one is paid),
  `Sought` (before the intent no payment exists, and what is known here is the
  intent's) and `TicksTrue` (a tick that is about to finish its job has done what
  the job is for). It gives **NothingIsSkipped**: a second worker, a repeated
  command and a lapsed lease never leave a job done and its work undone, unless it
  looked early; beside it are inductive that a check which was done and not early is
  of a payment that has ended (`SeenFinal`), and the receipt of the expiry. From `SettleInv`, too,
  **HoldImplemented** maps every step to one of `OnlineHold` or a stutter: only a
  result (`Result`) decides, and that it decides once is `Applied` with the one
  payment of `Single`; a process that is about to be uncertain found the intent too
  old, so the hold has lapsed by then (`UncertainDoubts`). **DemandStands** goes through the steps that touch the flag
  or the receipt of the demand: under `NotCancelledMeanwhile` each of them keeps
  the flag or records the payment.
* `InvoicesProofs`: `IInv` is the types with `TicksOK` (a tick that is done with a
  job to issue has its receipt, and what is about to leave is what was meant),
  `JobsOK` and `ReceiptsOK` (a job or receipt to issue has the number of a revision
  the row has had, so the next change's key is new; a job is done only with its
  receipt), `MailsOK`, `LateOK` (what a sweep has in hand is of dates set no later than
  the row's, and when they are the row's it finds overdue only what is; a postpaid
  booking that is unpaid past its last day was noted) and `InvoiceComing` itself. Hence
  **InvoicesCome**, **MailsAreAsChosen**, **PrepaysAreEarned**, and, beside the
  invariant that no sweep is overtaken, **PrepaysAreDeserved**. For **NothingIsLost**,
  `MailedOK` adds that a tick which is about to finish a job to send has sent it,
  and `DecisionsOK` that a sweep never holds a later revision than the row's, and
  a receipt of the present revision is of a row that is no longer owed: a row that
  changes gets a revision for which no key was used, and a decision written by the
  sweep makes one itself. **SupplementIsAskedFor**: `PaidAgain` (the current invoice
  is paid and its amount is outstanding) is the only way to be owed and not asked;
  no payment or command of the worker makes it true, only a change of the price.
* `DeskProofs`: `ConversationKept` is inductive beside the types and a bound on
  what a run remembers (**ConversationTrue**). For the delivery, `IInv` adds
  `CardOK` (one card; its creation is open only while none is known), `MessagesOK`
  (when a message may have been sent, all earlier ones are on the card; what is
  still to arrive is not there yet), `CommentsOK` (each comment of Pass is of one
  message, and they point at each other) and `RunOK` (the worker's list is an
  earlier state of the comments, and what it is about to send is next and not
  there). It gives **LinksTrue** and the step simulation behind
  **DeliveryImplemented**. **NothingIsForgotten** has two parts. `WorkInv`: between
  the claim of a job and its end every unsent message has another job or is still
  ahead of this run, whose failure puts the job back. `AssignInv`: what a run
  carries to the portal is the present assignee exactly while the revision it read
  is the present one, so a recorded revision is never ahead of the card.
  **LinkedCompanyArrives**, with `CompanyInv`: what is marked as carried is on the
  card, and the company in the worker's hand is the present one.
* `LoginProofs`: `IInv` is the types with `HandsOK` (what a call has in hand when
  it may buy a session), `IdentityOK` (an identity follows what it saw of the
  account), `RequestsOK` (one call serves a row, and has sent nothing before its
  mail), `CodesOK` (the challenge counts the guesses of the latest code; a code that
  bought a session is used up or replaced) and `SessionsOK` (what was issued for
  the present version of the identity was issued for its present password).
  Hence **SentOnceAlways**, **GuessesBoundedAlways**, **OneSessionAlways**,
  **SessionsEndAlways** and **MirrorsAlways**.
* `CutoverProofs`: `LockInv`: an importing shell holds the lock, is alone, Pass is
  not open and never was; a shell about to lock has an export. Hence
  **LockExcludes**, **OpenedDataIsOurs**, **MstyleNeverAgain**. `CompareInv` says
  that the parts a comparing shell found equal still are, while the data has never
  been open and nobody imports; hence **OpenedAsCompared**.

Only model-checked: the liveness properties `MoneySettles`, `HoldEnds`,
`AllDelivered`, `MirrorSettles`, `AssignmentArrives`, `AmountSettles`,
`MailLeaves` and `MarkSettles` (fairness is out of the prover's reach), and the
violated properties, which their traces refute and which are proved only under
the conditions of section 4.

## 6. Not modelled

The parts without a module in section 1. Most of the repository's lines are of
that kind: pages, queries with filters and paging, mapping between formats,
clients of outside services and single-document updates behind a permission. They
hold no protocol, a model of them would repeat them, and so the modules stand for
a small part of the lines of the whole.

Of the modelled files:

* *Bookings, payments*: page limits of the worker's queries (20 holds, 200 rows),
  hours of inactive profiles and the calendar of a period, prices, the reading of
  `prepay_required` before the transaction of create.
* *Invoices*: guests, issuers, payers, recipients, `due_at` given by hand, a profile
  whose data are incomplete.
* *Desk*: a second worker beside one that stalled for more than 180 seconds,
  duplicate cards and cards of others, attachments and files, markers of the old
  format, the creation of contacts and companies, access by revision.
* *Login*: SMS and Telegram, dummy challenges for unknown addresses, changes of a
  contact while a challenge runs, deleted accounts, invitations accepted in
  confirmLogin, the manual
  test path, the expiry of rows and sessions, a change of the address, commands
  that only bump the version. Two overlapping resends may open a consumed
  challenge again with a new code, which `OneSessionPerCode` allows.
* *Cutover*: what `prepare` maps, running jobs at the opening, the replica set.

## 7. Plan

1. *Done*: `Bookings`, `CommandStore`, `OnlinePayments`, `Cutover`, `Desk` with
   `Delivery`, `Login`, `Invoices`, `OnlineHold`, and their proofs.
2. *Policies*: the pages of 200 and of 20; `prepay_required` read outside `create`.
3. *Support*: attachments with their files; a second worker.
4. *Mstyle v2*: `Snapshots` of private data; changes of a contact.
5. *Passes* and *Registration*.
6. *Pure algorithms* against reference definitions: `monthlyPeriod`,
   `normalizeSegments`, `quote`.
