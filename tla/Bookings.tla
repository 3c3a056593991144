------------------------------ MODULE Bookings ------------------------------
(***************************************************************************)
(* The booking table of OperationsBookings with everything that writes to  *)
(* it: the customers' and administrators' commands, the payment results,   *)
(* the hold expiry and the overdue sweep of OperationsPayments, and the    *)
(* resident-hours account of OperationsHours that the bookings draw on.    *)
(*                                                                         *)
(* Every command runs in one transaction that also increments the          *)
(* ownership fence (OperationsStore.command), so two commands never        *)
(* interleave and a command is one action.  What a handler reads BEFORE    *)
(* its command does interleave, and is a step of its own: the row that an  *)
(* extension is priced from (draft) and the rows that the overdue sweep    *)
(* decided about (sweep).                                                  *)
(*                                                                         *)
(* A booking's room and segments are a set of room-time cells: segments    *)
(* overlap exactly when the sets meet.  Money and minutes are small        *)
(* naturals.  expires_at is "none", "ahead" or "passed".                   *)
(***************************************************************************)
EXTENDS Integers

CONSTANTS
  Booking,     \* booking ids
  Cell,        \* room-time cells
  Methods,     \* the payment methods requested
  Amounts,     \* the total_amount_minor and price differences quoted
  Minutes,     \* the resident hours a request may ask for
  Quotas,      \* the monthly quotas an administrator may set
  MaxMinutes,  \* bound on an account's balance and on a booking's net debit
  MaxTotal     \* bound on a booking's total

\* qr_code is handled as card_online throughout.
Method == {"card_online", "cash", "invoice", "postpay", "balance"}

ASSUME InputsAssumption ==
  /\ Methods \subseteq Method
  /\ Amounts \subseteq Nat
  /\ Minutes \subseteq Nat
  /\ Quotas \subseteq Nat
  /\ MaxMinutes \in Nat
  /\ MaxTotal \in Nat

VARIABLES
  row,      \* mstyle_ops_bookings
  paid,     \* sum of a booking's payments with status 'paid'
  net,      \* sum of a booking's debits less its credits in hours_ledger
  online,   \* the provider's payment for a hold: "none", "open" or "settled"
  account,  \* the hours account of the residents who book
  quota,    \* the quota the profile is entitled to now
  draft,    \* an extension or transfer priced and not yet committed
  sweep     \* bookings the overdue sweep read as unpaid postpay

vars == <<row, paid, net, online, account, quota, draft, sweep>>

-----------------------------------------------------------------------------
\* Rows and rules.

Status == {"absent", "hold", "guest_request", "awaiting_payment",
           "awaiting_confirmation", "confirmed", "cancelled", "blocked",
           "awaiting_resolution"}

PaymentStatus == {"unpaid", "paid", "postpay", "postpay_warning", "overdue"}

RowMethod == Method \cup {""}    \* a closed room has no payment method

Expiry == {"none", "ahead", "passed"}

Row == [status: Status, cells: SUBSET Cell,
        expires: Expiry, total: Nat, writeoff: Nat,
        payment_status: PaymentStatus, method: RowMethod,
        owner: BOOLEAN, hours: Nat, attention: BOOLEAN, revision: Nat]

Absent == [status |-> "absent", cells |-> {}, expires |-> "none", total |-> 0,
           writeoff |-> 0, payment_status |-> "unpaid", method |-> "",
           owner |-> FALSE, hours |-> 0, attention |-> FALSE, revision |-> 0]

NoDraft == [id |-> "none"]

Draft == [id: Booking, revision: Nat, total: Nat, hours: Nat]

BlocksAvailability(r) ==
  /\ r.expires # "passed"
  /\ r.status \in {"hold", "awaiting_payment", "awaiting_confirmation",
                   "confirmed", "blocked"}

\* Variant: only an approved booking is looked at.
FreeOfConfirmed(b, cells) ==
  \A c \in Booking \ {b} : row[c].status = "confirmed" => row[c].cells \cap cells = {}

\* assertAvailable, and the negation of "conflicts": no other live booking meets the cells.
Free(b, cells) ==
  \A c \in Booking \ {b} : BlocksAvailability(row[c]) => row[c].cells \cap cells = {}

Positive(n) == IF n > 0 THEN n ELSE 0

\* Variant: what the booking was priced at instead of what was debited.
PricedHours(b) == row[b].writeoff

Refundable(b) == Positive(net[b])

\* Variant: asks for money only when the change made the booking dearer.
DueIfRaised(b, total) == total > row[b].total

Due(b, total) == total > paid[b]

\* Variant: trusts the payment status alone.
NotUnpaid(b) == row[b].payment_status # "unpaid"

MayConfirm(b) == row[b].method = "postpay" \/ row[b].payment_status = "paid"

InitialPayment(method, total, owner) ==
  IF ~owner THEN
    [status |-> "guest_request", payment_status |-> "unpaid", expires |-> "none",
     method |-> IF method \in {"cash", "invoice"} THEN method ELSE "invoice"]
  ELSE IF total = 0 THEN
    [status |-> "awaiting_confirmation", payment_status |-> "paid",
     expires |-> "none", method |-> method]
  ELSE IF method = "card_online" THEN
    [status |-> "hold", payment_status |-> "unpaid", expires |-> "ahead",
     method |-> method]
  ELSE
    [status |-> "awaiting_payment", expires |-> "none", method |-> method,
     payment_status |-> IF method = "postpay" THEN "postpay" ELSE "unpaid"]

\* Every command that writes a row increments its revision.
Save(b, r) == row' = [row EXCEPT ![b] = [r EXCEPT !.revision = @ + 1]]

-----------------------------------------------------------------------------
\* The hours account.  "due": the account does not exist yet or its next
\* renewal date has come; "spent": the booking movements since the accrual date.

Account == [balance: Nat, quota: Nat, spent: Int, due: BOOLEAN]

Ensure ==
  IF account.due THEN
    [balance |-> quota, quota |-> quota, spent |-> 0, due |-> FALSE]
  ELSE IF account.quota # quota THEN
    [account EXCEPT !.balance = Positive(quota - Positive(account.spent)),
                    !.quota = quota]
  ELSE account

\* OperationsHours.change by a booking: negative delta debits, positive credits.
ChangeHours(b, delta) ==
  /\ Ensure.balance + delta >= 0
  /\ account' = [Ensure EXCEPT !.balance = @ + delta, !.spent = @ - delta]
  /\ net' = [net EXCEPT ![b] = @ - delta]

\* change is not called at all for a zero amount.
MoveHours(b, delta) == IF delta = 0 THEN UNCHANGED <<account, net>>
                                    ELSE ChangeHours(b, delta)

-----------------------------------------------------------------------------
TypeOK ==
  /\ row \in [Booking -> Row]
  /\ paid \in [Booking -> Nat]
  /\ net \in [Booking -> Int]
  /\ online \in [Booking -> {"none", "open", "settled"}]
  /\ account \in Account
  /\ quota \in Nat
  /\ draft \in Draft \cup {NoDraft}
  /\ sweep \subseteq Booking

Init ==
  /\ row = [b \in Booking |-> Absent]
  /\ paid = [b \in Booking |-> 0]
  /\ net = [b \in Booking |-> 0]
  /\ online = [b \in Booking |-> "none"]
  /\ quota \in Quotas
  /\ account = [balance |-> 0, quota |-> 0, spent |-> 0, due |-> TRUE]
  /\ draft = NoDraft
  /\ sweep = {}

\* A resident books or asks to repeat a booking, or an administrator books for
\* a resident or a guest.  Hours of an online booking wait for the payment.
Create(b, cells, method, total, writeoff, owner) ==
  LET p == InitialPayment(method, total, owner)
      deferred == p.status = "hold"
  IN
  /\ row[b].status = "absent"
  /\ method = "balance" => total = 0 /\ writeoff > 0
  /\ writeoff > 0 => owner
  /\ p.status # "guest_request" => Free(b, cells)
  /\ IF deferred /\ writeoff > 0
       THEN /\ Ensure.balance >= writeoff
            /\ account' = Ensure
            /\ net' = net
       ELSE MoveHours(b, -writeoff)
  /\ row' = [row EXCEPT ![b] =
       [status |-> p.status, cells |-> cells, expires |-> p.expires,
        total |-> total, writeoff |-> writeoff,
        payment_status |-> p.payment_status, method |-> p.method,
        owner |-> owner, hours |-> IF deferred THEN 0 ELSE writeoff,
        attention |-> FALSE, revision |-> 1]]
  /\ online' = [online EXCEPT ![b] = IF deferred THEN "open" ELSE "none"]
  /\ UNCHANGED <<paid, quota, draft, sweep>>

\* An administrator closes a room for a time; the row keeps the time's price.
Block(b, cells, total) ==
  /\ row[b].status = "absent"
  /\ Free(b, cells)
  /\ row' = [row EXCEPT ![b] = [Absent EXCEPT
       !.status = "blocked", !.cells = cells, !.total = total, !.revision = 1]]
  /\ UNCHANGED <<paid, net, online, account, quota, draft, sweep>>

-----------------------------------------------------------------------------
\* OperationsBookings.action: an administrator works on a booking.

Confirm(b) ==
  /\ row[b].status \notin {"absent", "cancelled", "blocked"}
  /\ MayConfirm(b)
  /\ row[b].writeoff <= Refundable(b)
  /\ Free(b, row[b].cells)
  /\ Save(b, [row[b] EXCEPT !.status = "confirmed", !.expires = "none",
                            !.attention = FALSE])
  /\ UNCHANGED <<paid, net, online, account, quota, draft, sweep>>

\* A mark on a row that is already paid changes nothing.
MarkPaid(b) ==
  LET conflict == ~Free(b, row[b].cells)
  IN
  /\ row[b].status \notin {"absent", "cancelled"}
  /\ row[b].method \in {"cash", "invoice", "postpay"}
  /\ row[b].payment_status # "paid"
  /\ paid' = [paid EXCEPT ![b] = @ + Positive(row[b].total - paid[b])]
  /\ Save(b, [row[b] EXCEPT
       !.payment_status = "paid", !.expires = "none", !.attention = conflict,
       !.status = IF conflict THEN "awaiting_resolution"
                  ELSE IF @ = "confirmed" THEN "confirmed"
                  ELSE "awaiting_confirmation"])
  /\ UNCHANGED <<net, online, account, quota, draft, sweep>>

ResolveAttention(b) ==
  /\ row[b].status \notin {"absent", "awaiting_resolution"}
  /\ row[b].status # "cancelled" => row[b].writeoff <= Refundable(b)
  /\ Save(b, [row[b] EXCEPT !.attention = FALSE])
  /\ UNCHANGED <<paid, net, online, account, quota, draft, sweep>>

\* The comment, the invoice number and the overdue mark of an invoice: writes
\* to fields that nothing here depends on, which do increment the revision.
Touch(b) ==
  /\ row[b].status # "absent"
  /\ Save(b, row[b])
  /\ UNCHANGED <<paid, net, online, account, quota, draft, sweep>>

\* Variant: the debited hours stay on the row.
CancelKeepingHours(b) ==
  /\ IF row[b].owner THEN MoveHours(b, Refundable(b)) ELSE UNCHANGED <<account, net>>
  /\ Save(b, [row[b] EXCEPT !.status = "cancelled", !.expires = "none",
                            !.attention = paid[b] > 0])

\* Variant: received money raises no attention.
CancelQuietly(b) ==
  /\ IF row[b].owner THEN MoveHours(b, Refundable(b)) ELSE UNCHANGED <<account, net>>
  /\ Save(b, [row[b] EXCEPT !.status = "cancelled", !.expires = "none",
                            !.hours = 0, !.attention = FALSE])

CancelInTransaction(b) ==
  /\ IF row[b].owner THEN MoveHours(b, Refundable(b)) ELSE UNCHANGED <<account, net>>
  /\ Save(b, [row[b] EXCEPT !.status = "cancelled", !.expires = "none",
                            !.hours = 0, !.attention = paid[b] > 0])

\* Cancelling a cancelled booking changes nothing.
Cancel(b) ==
  /\ row[b].status \notin {"absent", "cancelled"}
  /\ CancelInTransaction(b)
  /\ UNCHANGED <<paid, online, quota, draft, sweep>>

CustomerCancel(b) ==
  /\ row[b].status \in {"hold", "guest_request", "awaiting_confirmation",
                        "awaiting_payment", "confirmed"}
  /\ CancelInTransaction(b)
  /\ UNCHANGED <<paid, online, quota, draft, sweep>>

-----------------------------------------------------------------------------
\* OperationsBookings.change.  An edit is priced afresh; an extension or a
\* transfer adds to the amounts of the row it was priced from, read before
\* the transaction, and the revision check ties the commit to that row.
\* (A revision sent by the client is one it was shown, so not a later one.)

Changeable == {"awaiting_payment", "awaiting_confirmation", "confirmed",
               "awaiting_resolution"}

ApplyChange(b, cells, total, writeoff, method) ==
  LET hoursDelta == writeoff - Refundable(b)
      due == Due(b, total)
  IN
  /\ row[b].status \in Changeable
  /\ Free(b, cells)
  /\ hoursDelta # 0 => row[b].owner
  /\ MoveHours(b, -hoursDelta)
  /\ due => method \in {"cash", "invoice", "postpay"}
  /\ Save(b, [row[b] EXCEPT
       !.cells = cells, !.total = total, !.writeoff = writeoff,
       !.hours = writeoff, !.method = method,
       !.status = IF due THEN "awaiting_payment"
                  ELSE IF @ = "awaiting_resolution" THEN "awaiting_confirmation"
                  ELSE @,
       !.payment_status = IF ~due THEN "paid"
                          ELSE IF method = "postpay" THEN "postpay" ELSE "unpaid",
       !.attention = paid[b] > total])
  /\ UNCHANGED <<paid, online, quota, sweep>>

Edit(b, cells, total, writeoff, method) ==
  /\ method = "balance" => total = 0 /\ writeoff > 0
  /\ ApplyChange(b, cells, total, writeoff, method)
  /\ draft' = draft

PriceDraft(b) ==
  /\ draft = NoDraft
  /\ row[b].status # "absent"
  /\ draft' = [id |-> b, revision |-> row[b].revision, total |-> row[b].total,
               hours |-> row[b].hours]
  /\ UNCHANGED <<row, paid, net, online, account, quota, sweep>>

\* Variant: no revision check.
AnyDraft(b) == draft # NoDraft /\ draft.id = b

CurrentDraft(b) ==
  /\ draft # NoDraft /\ draft.id = b
  /\ draft.revision = row[b].revision

CommitDraft(b, cells, added, hours, method) ==
  /\ CurrentDraft(b)
  /\ draft.total + added <= MaxTotal
  /\ draft.hours + hours \in 0 .. MaxMinutes
  /\ ApplyChange(b, cells, draft.total + added, draft.hours + hours, method)
  /\ draft' = NoDraft

\* The request fails before or in its transaction, which is rolled back.
DropDraft ==
  /\ draft # NoDraft
  /\ draft' = NoDraft
  /\ UNCHANGED <<row, paid, net, online, account, quota, sweep>>

-----------------------------------------------------------------------------
\* OperationsPayments: results of the provider's payment, time, the worker.

\* Variant: money revives a cancelled booking.
StatusOfPaid(b, conflict, remaining) ==
  CASE conflict -> "awaiting_resolution"
    [] ~conflict /\ remaining > 0 -> "awaiting_payment"
    [] OTHER -> "awaiting_confirmation"

StatusAfterPayment(b, conflict, remaining) ==
  CASE row[b].status = "cancelled" -> "cancelled"
    [] row[b].status # "cancelled" /\ conflict -> "awaiting_resolution"
    [] row[b].status # "cancelled" /\ ~conflict /\ remaining > 0 -> "awaiting_payment"
    [] row[b].status = "confirmed" /\ ~conflict /\ remaining = 0 -> "confirmed"
    [] OTHER -> "awaiting_confirmation"

\* 'payment-result:<id>:succeeded'.  The payment's amount is the hold's total.
PaymentSucceeded(b) ==
  LET conflict == row[b].status = "cancelled" \/ ~Free(b, row[b].cells)
      received == paid[b] + row[b].total
      remaining == Positive(row[b].total - received)
      required == IF ~conflict /\ remaining = 0
                    THEN Positive(row[b].writeoff - Refundable(b)) ELSE 0
      hoursProblem == Ensure.balance < required
      debit == IF hoursProblem THEN 0 ELSE required
  IN
  /\ online[b] = "open"
  /\ online' = [online EXCEPT ![b] = "settled"]
  /\ paid' = [paid EXCEPT ![b] = received]
  /\ account' = IF required = 0 THEN account
                ELSE [Ensure EXCEPT !.balance = @ - debit, !.spent = @ + debit]
  /\ net' = [net EXCEPT ![b] = @ + debit]
  /\ Save(b, [row[b] EXCEPT
       !.payment_status = IF remaining > 0 THEN "unpaid" ELSE "paid",
       !.expires = "none",
       !.hours = IF debit > 0 THEN row[b].writeoff ELSE @,
       !.status = StatusAfterPayment(b, conflict, remaining),
       !.attention = conflict \/ (required > 0 /\ hoursProblem)])
  /\ UNCHANGED <<quota, draft, sweep>>

\* 'payment-result:<id>:canceled'.
PaymentCanceled(b) ==
  /\ online[b] = "open"
  /\ online' = [online EXCEPT ![b] = "settled"]
  /\ IF row[b].status = "hold" THEN CancelInTransaction(b)
                               ELSE UNCHANGED <<row, account, net>>
  /\ UNCHANGED <<paid, quota, draft, sweep>>

\* 'payment-uncertain:<id>': the creation is not repeated after 23 hours.  The
\* intent was read before the command, which flags whatever the booking has become
\* meanwhile: paid, void, cancelled, edited.
PaymentUncertain(b) ==
  /\ online[b] # "none" /\ row[b].expires # "ahead"
  /\ Save(b, [row[b] EXCEPT !.attention = TRUE])
  /\ UNCHANGED <<paid, net, online, account, quota, draft, sweep>>

\* Fifteen minutes pass.
Lapse(b) ==
  /\ row[b].expires = "ahead"
  /\ row' = [row EXCEPT ![b].expires = "passed"]
  /\ UNCHANGED <<paid, net, online, account, quota, draft, sweep>>

\* 'expire:<id>'.
Expire(b) ==
  /\ row[b].status = "hold" /\ row[b].expires = "passed"
  /\ CancelInTransaction(b)
  /\ UNCHANGED <<paid, online, quota, draft, sweep>>

\* The overdue sweep reads the unpaid postpay bookings in one query ...
SweepRead ==
  /\ sweep = {}
  /\ sweep' = {b \in Booking : /\ row[b].status \notin {"absent", "cancelled", "blocked"}
                               /\ row[b].payment_status # "paid"
                               /\ row[b].method = "postpay"}
  /\ sweep' # {}
  /\ UNCHANGED <<row, paid, net, online, account, quota, draft>>

\* ... and writes them one command at a time, looking again only at whether
\* the booking was cancelled or paid meanwhile.
SweepWrite(b) ==
  /\ b \in sweep
  /\ sweep' = sweep \ {b}
  /\ \/ /\ row[b].status # "cancelled"
        /\ row[b].payment_status # "paid"
        /\ \E s \in {"postpay", "postpay_warning", "overdue"} :
             Save(b, [row[b] EXCEPT !.payment_status = s])
     \/ row' = row
  /\ UNCHANGED <<paid, net, online, account, quota, draft>>

-----------------------------------------------------------------------------
\* OperationsHours: what moves the account besides bookings.

\* An administrator corrects hours, for a booking or for the account alone.
AdjustBooking(b, delta) ==
  /\ row[b].status # "absent" /\ row[b].owner
  /\ delta > 0 => delta <= Refundable(b)
  /\ net[b] - delta <= MaxMinutes
  /\ ChangeHours(b, delta)
  /\ Save(b, [row[b] EXCEPT !.hours = Positive(net'[b])])
  /\ UNCHANGED <<paid, online, quota, draft, sweep>>

AdjustAccount(delta) ==
  /\ Ensure.balance + delta \in 0 .. MaxMinutes
  /\ account' = [Ensure EXCEPT !.balance = @ + delta]
  /\ UNCHANGED <<row, paid, net, online, quota, draft, sweep>>

\* The worker, or a reader of the account, renews it lazily.
Renew ==
  /\ Ensure # account
  /\ account' = Ensure
  /\ UNCHANGED <<row, paid, net, online, quota, draft, sweep>>

PeriodEnds ==
  /\ ~account.due
  /\ account' = [account EXCEPT !.due = TRUE]
  /\ UNCHANGED <<row, paid, net, online, quota, draft, sweep>>

SetQuota(q) ==
  /\ q # quota
  /\ quota' = q
  /\ UNCHANGED <<row, paid, net, online, account, draft, sweep>>

-----------------------------------------------------------------------------
CellSets == SUBSET Cell \ {{}}

BookingStep(b) ==
  \/ \E cells \in CellSets, m \in Methods, t \in Amounts, w \in Minutes, o \in BOOLEAN :
       Create(b, cells, m, t, w, o)
  \/ \E cells \in CellSets, t \in Amounts : Block(b, cells, t)
  \/ Confirm(b)
  \/ MarkPaid(b)
  \/ ResolveAttention(b)
  \/ Touch(b)
  \/ Cancel(b)
  \/ CustomerCancel(b)
  \/ \E cells \in CellSets, m \in Methods, t \in Amounts, w \in Minutes :
       Edit(b, cells, t, w, m)
  \/ PriceDraft(b)
  \/ \E cells \in CellSets, m \in Methods, t \in Amounts, w \in Minutes :
       CommitDraft(b, cells, t, w, m) \/ CommitDraft(b, cells, t, -w, m)
  \/ PaymentSucceeded(b)
  \/ PaymentCanceled(b)
  \/ PaymentUncertain(b)
  \/ Lapse(b)
  \/ Expire(b)
  \/ SweepWrite(b)
  \/ \E w \in Minutes \ {0} : AdjustBooking(b, w) \/ AdjustBooking(b, -w)

AccountStep ==
  \/ \E w \in Minutes \ {0} : AdjustAccount(w) \/ AdjustAccount(-w)
  \/ Renew
  \/ PeriodEnds
  \/ \E q \in Quotas : SetQuota(q)

Next ==
  \/ \E b \in Booking : BookingStep(b)
  \/ DropDraft
  \/ SweepRead
  \/ AccountStep

Spec == Init /\ [][Next]_vars

-----------------------------------------------------------------------------
\* Properties.

Live(b) == BlocksAvailability(row[b])

\* A room is never promised twice: two bookings that both block availability
\* share no cell, whatever came late - a payment for a lapsed hold, cash for a
\* guest's request, a resolved conflict, a change of time.
NoDoubleBooking ==
  \A b, c \in Booking : b # c /\ Live(b) /\ Live(c) => row[b].cells \cap row[c].cells = {}

\* hours_debited_min, the copy of the ledger kept on the booking, is what the
\* ledger says can still be returned: debits, refunds and corrections never
\* leave the two apart (a later extension is priced from the copy).
HoursMatchLedger == \A b \in Booking : row[b].hours = net[b]

\* Payment status 'paid' means the received payments cover the total the
\* booking has NOW, after any edits, extensions and transfers.
PaidMeansCovered ==
  \A b \in Booking : row[b].payment_status = "paid" => paid[b] >= row[b].total

\* Only postpay is approved before its money: no order of changes of method,
\* stale overdue marks and approvals leaves an unpaid booking confirmed.
ConfirmedIsPaid ==
  \A b \in Booking : row[b].status = "confirmed" =>
     row[b].payment_status = "paid" \/ row[b].method = "postpay"

\* No hours out of nothing: no sequence of cancellations, shorter transfers and
\* administrators' refunds credits a booking more than its debits, and none of
\* debits, renewals and lowered quotas takes the account below zero.
HoursNeverOverdrawn ==
  /\ \A b \in Booking : net[b] >= 0
  /\ account.balance >= 0

\* Money of a booking that does not take place is flagged for an administrator
\* from the step it becomes so, and only an administrator clears the flag.
Stranded(b) == row[b].status \in {"cancelled", "awaiting_resolution"} /\ paid[b] > 0

StrandedMoneyFlagged ==
  [][\A b \in Booking :
       Stranded(b)' /\ ~row'[b].attention =>
         \/ Stranded(b) /\ ~row[b].attention /\ paid'[b] = paid[b]
         \/ ResolveAttention(b)]_vars

\* A cancelled booking never comes back, not even by a payment that arrives
\* after the cancellation.
CancelledIsFinal ==
  [][\A b \in Booking : row[b].status = "cancelled" => row'[b].status = "cancelled"]_vars

\* An extension or transfer never lowers what is owed: it is added to the row
\* it was priced from, and a row changed meanwhile refuses it.
ExtensionKeepsCharges ==
  [][\A b \in Booking :
       draft # NoDraft /\ draft.id = b /\ draft' = NoDraft =>
         row'[b].total >= row[b].total]_vars

\* The calendar the bookings implement.
Calendar == INSTANCE RoomCalendar WITH
  occupied <- [b \in Booking |-> IF Live(b) THEN row[b].cells ELSE {}]

\* Every step changes what one booking occupies, and gives it only free cells.
ImplementsCalendar == Calendar!Spec

\* What a booking is as an online hold.
StageOf(b) ==
  IF online[b] = "none" THEN "none"
  ELSE CASE row[b].status = "hold" ->
              IF row[b].expires = "passed" THEN "lapsed" ELSE "hold"
         [] row[b].status = "cancelled" -> "cancelled"
         [] row[b].status = "awaiting_resolution" -> "conflict"
         [] OTHER -> "booked"

MoneyOfHold(b) ==
  IF online[b] # "settled" THEN "awaited"
  ELSE IF paid[b] > 0 THEN "received" ELSE "void"

Hold(b) == INSTANCE OnlineHold WITH
  stage <- StageOf(b),
  money <- MoneyOfHold(b),
  flag <- online[b] # "none" /\ row[b].attention

\* Every booking that is paid online keeps what OnlineHold promises, although
\* edits, sweeps, corrections and other bookings act on the same rows: among
\* the rest, a hold that has not lapsed finds its room free when it is paid,
\* which is what OnlinePayments assumes of the rooms.
ImplementsHolds ==
  /\ \A b \in Booking : Hold(b)!Init
  /\ [][\A b \in Booking : [Hold(b)!Next]_(Hold(b)!hold)]_vars
=============================================================================
