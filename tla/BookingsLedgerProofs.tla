------------------------ MODULE BookingsLedgerProofs ------------------------
(***************************************************************************)
(* Proofs about the bookkeeping of Bookings: the hours on a booking are    *)
(* what its ledger says, 'paid' means covered, approved means paid or      *)
(* postpay.  A step writes one booking, so the invariant is stated for one *)
(* booking (Sound) and every step is shown to keep it for the booking it   *)
(* writes and to leave the others alone (Local).  The last part is about   *)
(* the online holds: they are OnlineHolds, and their rooms are free.       *)
(***************************************************************************)
EXTENDS BookingsProofs

\* The hours part needs more than HoursMatchLedger: a booking without a
\* resource profile never debits, and no payment of it can come in later.
HoursOf(b) ==
  /\ row[b].hours = net[b]
  /\ ~row[b].owner => net[b] = 0 /\ online[b] # "open"
  /\ row[b].status = "absent" => ~row[b].owner

MoneyOf(b) ==
  /\ row[b].payment_status = "paid" => paid[b] >= row[b].total
  /\ row[b].status = "confirmed" =>
       row[b].payment_status = "paid" \/ row[b].method = "postpay"

Sound(b) == HoursOf(b) /\ MoneyOf(b)

Same(c) == /\ row'[c] = row[c] /\ paid'[c] = paid[c]
           /\ net'[c] = net[c] /\ online'[c] = online[c]

Local(b) == \A c \in Booking \ {b} : Same(c)

LEMMA MoveHoursLocal ==
  ASSUME TypeOK, NEW b \in Booking, NEW delta \in Int, MoveHours(b, delta)
  PROVE  /\ \A c \in Booking \ {b} : net'[c] = net[c]
         /\ net'[b] = net[b] - delta
<1>1. CASE delta = 0
  BY <1>1 DEF MoveHours, TypeOK
<1>2. CASE delta # 0
  BY <1>2 DEF MoveHours, ChangeHours, TypeOK
<1> QED BY <1>1, <1>2

\* A cancellation returns exactly what is still debited.
LEMMA CancelSound ==
  ASSUME TypeOK, NEW b \in Booking, HoursOf(b), MoneyOf(b), CancelInTransaction(b)
  PROVE  /\ \A c \in Booking \ {b} : row'[c] = row[c] /\ net'[c] = net[c]
         /\ row'[b].hours = 0 /\ net'[b] = 0 /\ row'[b].owner = row[b].owner
         /\ row'[b].status = "cancelled"
         /\ row'[b].payment_status = row[b].payment_status
         /\ row'[b].total = row[b].total
<1>1. /\ \A c \in Booking \ {b} : net'[c] = net[c]
      /\ net'[b] = 0
  <2>1. net[b] \in Nat /\ Refundable(b) = net[b]
    BY DEF HoursOf, TypeOK, Row, Refundable, Positive
  <2>2. CASE row[b].owner
    <3>1. MoveHours(b, Refundable(b))
      BY <2>2 DEF CancelInTransaction
    <3> QED BY <2>1, <3>1, MoveHoursLocal
  <2>3. CASE ~row[b].owner
    BY <2>3 DEF CancelInTransaction, HoursOf
  <2> QED BY <2>2, <2>3
<1>2. /\ \A c \in Booking \ {b} : row'[c] = row[c]
      /\ row'[b].hours = 0 /\ row'[b].owner = row[b].owner
      /\ row'[b].status = "cancelled"
      /\ row'[b].payment_status = row[b].payment_status
      /\ row'[b].total = row[b].total
  BY DEF CancelInTransaction, Save, TypeOK, Row
<1> QED BY <1>1, <1>2

LEMMA CreateSound ==
  ASSUME TypeOK, NEW b \in Booking, Sound(b), NEW cells \in CellSets,
         NEW m \in Methods, NEW t \in Amounts, NEW w \in Minutes, NEW o \in BOOLEAN,
         Create(b, cells, m, t, w, o)
  PROVE  Sound(b)' /\ Local(b)
<1> DEFINE p == InitialPayment(m, t, o)
<1>1. t \in Nat /\ w \in Nat /\ -w \in Int /\ m \in Method
  BY InputsAssumption
<1>2. net[b] = 0
  BY DEF Create, Sound, HoursOf
<1>3. /\ \A c \in Booking \ {b} : net'[c] = net[c]
      /\ net'[b] = IF p.status = "hold" THEN 0 ELSE w
  <2>1. CASE p.status = "hold" /\ w > 0
    BY <1>2, <2>1 DEF Create
  <2>2. CASE ~(p.status = "hold" /\ w > 0)
    <3>1. MoveHours(b, -w)
      BY <2>2 DEF Create
    <3> QED BY <1>1, <1>2, <2>2, <3>1, MoveHoursLocal
  <2> QED BY <2>1, <2>2
<1>4. /\ \A c \in Booking \ {b} : row'[c] = row[c] /\ paid'[c] = paid[c]
                                  /\ online'[c] = online[c]
      /\ row'[b].hours = IF p.status = "hold" THEN 0 ELSE w
      /\ row'[b].owner = o /\ row'[b].status = p.status /\ row'[b].total = t
      /\ row'[b].payment_status = p.payment_status
      /\ online'[b] = IF p.status = "hold" THEN "open" ELSE "none"
      /\ paid' = paid
  BY DEF Create, TypeOK
<1>5. HoursOf(b)'
  <2>1. ~o => w = 0 /\ p.status # "hold"
    BY <1>1 DEF Create, InitialPayment
  <2>2. p.status # "absent"
    BY DEF InitialPayment
  <2> QED BY <1>1, <1>3, <1>4, <2>1, <2>2 DEF HoursOf
<1>6. MoneyOf(b)'
  <2>1. p.status # "confirmed"
    BY DEF InitialPayment
  <2>2. p.payment_status = "paid" => t = 0
    BY DEF InitialPayment
  <2>3. paid[b] \in Nat
    BY DEF TypeOK
  <2> QED BY <1>1, <1>4, <2>1, <2>2, <2>3 DEF MoneyOf
<1> QED BY <1>3, <1>4, <1>5, <1>6 DEF Sound, Local, Same

\* A change leaves the booking with exactly the hours it is now priced at.
LEMMA ApplyChangeSound ==
  ASSUME TypeOK, NEW b \in Booking, Sound(b), NEW cells, NEW t \in Nat,
         NEW w \in Nat, NEW m, ApplyChange(b, cells, t, w, m)
  PROVE  Sound(b)' /\ Local(b)
<1>1. net[b] \in Nat /\ Refundable(b) = net[b]
  BY DEF Sound, HoursOf, TypeOK, Row, Refundable, Positive
<1>2. /\ \A c \in Booking \ {b} : net'[c] = net[c]
      /\ net'[b] = w
  <2>1. MoveHours(b, -(w - Refundable(b)))
    BY DEF ApplyChange
  <2> QED BY <1>1, <2>1, MoveHoursLocal
<1>3. /\ \A c \in Booking \ {b} : row'[c] = row[c]
      /\ row'[b].hours = w /\ row'[b].owner = row[b].owner /\ row'[b].total = t
      /\ row'[b].payment_status =
           (IF ~Due(b, t) THEN "paid" ELSE IF m = "postpay" THEN "postpay" ELSE "unpaid")
      /\ row'[b].status = (IF Due(b, t) THEN "awaiting_payment"
                           ELSE IF row[b].status = "awaiting_resolution"
                             THEN "awaiting_confirmation" ELSE row[b].status)
  BY DEF ApplyChange, Save, TypeOK, Row
<1>4. paid' = paid /\ online' = online
  BY DEF ApplyChange
<1>5. HoursOf(b)'
  <2>1. ~row[b].owner => w = 0
    BY <1>1 DEF ApplyChange, Sound, HoursOf
  <2>2. row[b].status # "absent"
    BY DEF ApplyChange, Changeable
  <2> QED BY <1>2, <1>3, <1>4, <2>1, <2>2 DEF HoursOf, Sound
<1>6. MoneyOf(b)'
  <2>1. paid[b] \in Nat
    BY DEF TypeOK
  <2>2. CASE Due(b, t)
    BY <1>3, <2>2 DEF MoneyOf
  <2>3. CASE ~Due(b, t)
    BY <1>3, <1>4, <2>1, <2>3 DEF MoneyOf, Due
  <2> QED BY <2>2, <2>3
<1> QED BY <1>2, <1>3, <1>4, <1>5, <1>6 DEF Sound, Local, Same

\* The deferred debit of an online booking tops the ledger up to the price.
LEMMA PaymentSucceededSound ==
  ASSUME TypeOK, NEW b \in Booking, Sound(b), PaymentSucceeded(b)
  PROVE  Sound(b)' /\ Local(b)
<1> DEFINE
  conflict == row[b].status = "cancelled" \/ ~Free(b, row[b].cells)
  received == paid[b] + row[b].total
  remaining == Positive(row[b].total - received)
  required == IF ~conflict /\ remaining = 0
                THEN Positive(row[b].writeoff - Refundable(b)) ELSE 0
  debit == IF Ensure.balance < required THEN 0 ELSE required
<1>1. /\ row[b].total \in Nat /\ row[b].writeoff \in Nat /\ paid[b] \in Nat
      /\ net[b] \in Nat /\ Refundable(b) = net[b] /\ row[b].hours = net[b]
      /\ row[b].owner /\ row[b].status # "absent"
  BY DEF PaymentSucceeded, Sound, HoursOf, TypeOK, Row, Refundable, Positive
<1>2. /\ \A c \in Booking \ {b} : row'[c] = row[c] /\ paid'[c] = paid[c]
                                  /\ net'[c] = net[c] /\ online'[c] = online[c]
      /\ net'[b] = net[b] + debit /\ paid'[b] = received
      /\ row'[b].hours = (IF debit > 0 THEN row[b].writeoff ELSE row[b].hours)
      /\ row'[b].owner = row[b].owner /\ row'[b].total = row[b].total
      /\ row'[b].status = StatusAfterPayment(b, conflict, remaining)
      /\ row'[b].payment_status = (IF remaining > 0 THEN "unpaid" ELSE "paid")
  BY DEF PaymentSucceeded, Save, TypeOK, Row
<1>3. remaining \in Nat /\ (remaining = 0 => received >= row[b].total)
  BY <1>1 DEF Positive
<1>4. HoursOf(b)'
  <2>1. debit > 0 => net[b] + debit = row[b].writeoff
    BY <1>1 DEF Positive
  <2>2. debit > 0 \/ debit = 0
    BY <1>1 DEF Positive
  <2>3. row'[b].status # "absent"
    BY <1>1, <1>2 DEF StatusAfterPayment
  <2>4. row'[b].owner
    BY <1>1, <1>2
  <2>5. row'[b].hours = net'[b]
    <3> HIDE DEF debit
    <3>1. CASE debit > 0
      BY <1>2, <2>1, <3>1
    <3>2. CASE debit = 0
      BY <1>1, <1>2, <3>2
    <3> QED BY <2>2, <3>1, <3>2
  <2> QED BY <2>3, <2>4, <2>5 DEF HoursOf
<1>5. MoneyOf(b)'
  <2>1. row'[b].payment_status = "paid" => paid'[b] >= row'[b].total
    <3> HIDE DEF received, remaining
    <3> QED BY <1>2, <1>3
  <2>2. row'[b].status = "confirmed" => row'[b].payment_status = "paid"
    <3> HIDE DEF remaining, conflict
    <3> QED BY <1>2, <1>3 DEF StatusAfterPayment
  <2> QED BY <2>1, <2>2 DEF MoneyOf
<1> QED BY <1>2, <1>4, <1>5 DEF Sound, Local, Same

\* The other administrators' actions do not touch the ledger.
LEMMA AdminStepSound ==
  ASSUME TypeOK, NEW b \in Booking, Sound(b),
         Confirm(b) \/ MarkPaid(b) \/ ResolveAttention(b) \/ Touch(b)
  PROVE  Sound(b)' /\ Local(b)
<1>1. CASE Confirm(b)
  <2>1. /\ \A c \in Booking \ {b} : row'[c] = row[c]
        /\ row'[b].hours = row[b].hours /\ row'[b].owner = row[b].owner
        /\ row'[b].status = "confirmed" /\ row'[b].total = row[b].total
        /\ row'[b].payment_status = row[b].payment_status
        /\ row'[b].method = row[b].method
    BY <1>1 DEF Confirm, Save, TypeOK, Row
  <2> QED BY <1>1, <2>1 DEF Confirm, MayConfirm, Sound, HoursOf, MoneyOf, Local, Same
<1>2. CASE MarkPaid(b)
  <2>1. /\ \A c \in Booking \ {b} : row'[c] = row[c]
        /\ row'[b].hours = row[b].hours /\ row'[b].owner = row[b].owner
        /\ row'[b].status # "absent" /\ row'[b].total = row[b].total
        /\ row'[b].payment_status = "paid"
    BY <1>2 DEF MarkPaid, Save, TypeOK, Row
  <2>2. /\ \A c \in Booking \ {b} : paid'[c] = paid[c]
        /\ paid'[b] = paid[b] + Positive(row[b].total - paid[b])
    BY <1>2 DEF MarkPaid, TypeOK
  <2>3. paid'[b] >= row[b].total
    BY <2>2 DEF TypeOK, Row, Positive
  <2>4. row[b].status # "absent"
    BY <1>2 DEF MarkPaid
  <2> QED BY <1>2, <2>1, <2>2, <2>3, <2>4
          DEF MarkPaid, Sound, HoursOf, MoneyOf, Local, Same
<1>3. CASE ResolveAttention(b) \/ Touch(b)
  <2>1. /\ \A c \in Booking \ {b} : row'[c] = row[c]
        /\ row'[b].hours = row[b].hours /\ row'[b].owner = row[b].owner
        /\ row'[b].status = row[b].status /\ row'[b].total = row[b].total
        /\ row'[b].payment_status = row[b].payment_status
        /\ row'[b].method = row[b].method
    <3>1. CASE ResolveAttention(b)
      BY <3>1 DEF ResolveAttention, Save, TypeOK, Row
    <3>2. CASE Touch(b)
      BY <3>2 DEF Touch, Save, TypeOK, Row
    <3> QED BY <1>3, <3>1, <3>2
  <2>2. paid' = paid /\ net' = net /\ online' = online
    BY <1>3 DEF ResolveAttention, Touch
  <2>3. HoursOf(b)'
    BY <2>1, <2>2 DEF Sound, HoursOf
  <2>4. MoneyOf(b)'
    BY <2>1, <2>2 DEF Sound, MoneyOf
  <2> QED BY <2>1, <2>2, <2>3, <2>4 DEF Sound, Local, Same
<1> QED BY <1>1, <1>2, <1>3

\* An administrator's correction rewrites the copy on the row from the ledger.
LEMMA AdjustBookingSound ==
  ASSUME TypeOK, NEW b \in Booking, Sound(b), NEW delta \in Int, AdjustBooking(b, delta)
  PROVE  Sound(b)' /\ Local(b)
<1>1. net[b] \in Nat /\ Refundable(b) = net[b]
  BY DEF Sound, HoursOf, TypeOK, Row, Refundable, Positive
<1>2. /\ \A c \in Booking \ {b} : net'[c] = net[c]
      /\ net'[b] = net[b] - delta
  BY DEF AdjustBooking, ChangeHours, TypeOK
<1>3. net'[b] >= 0 /\ Positive(net'[b]) = net'[b]
  BY <1>1, <1>2 DEF AdjustBooking, Positive
<1>4. /\ \A c \in Booking \ {b} : row'[c] = row[c]
      /\ row'[b].hours = Positive(net'[b]) /\ row'[b].owner = row[b].owner
      /\ row'[b].status = row[b].status /\ row'[b].total = row[b].total
      /\ row'[b].payment_status = row[b].payment_status
      /\ row'[b].method = row[b].method
  BY DEF AdjustBooking, Save, TypeOK, Row
<1> QED BY <1>2, <1>3, <1>4 DEF AdjustBooking, Sound, HoursOf, MoneyOf, Local, Same

LEMMA BookingStepSound ==
  ASSUME TypeOK, NEW b \in Booking, Sound(b), BookingStep(b)
  PROVE  Sound(b)' /\ Local(b)
<1>1. ASSUME NEW cells \in CellSets, NEW m \in Methods, NEW t \in Amounts,
             NEW w \in Minutes, NEW o \in BOOLEAN, Create(b, cells, m, t, w, o)
      PROVE  Sound(b)' /\ Local(b)
  BY <1>1, CreateSound
<1>2. ASSUME NEW cells, NEW t \in Amounts, Block(b, cells, t)
      PROVE  Sound(b)' /\ Local(b)
  <2>1. /\ \A c \in Booking \ {b} : row'[c] = row[c]
        /\ row'[b].hours = 0 /\ row'[b].owner = FALSE /\ row'[b].status = "blocked"
        /\ row'[b].payment_status = "unpaid"
    BY <1>2 DEF Block, TypeOK, Absent
  <2>2. net[b] = 0 /\ online[b] # "open"
    BY <1>2 DEF Block, Sound, HoursOf
  <2> QED BY <1>2, <2>1, <2>2 DEF Block, Sound, HoursOf, MoneyOf, Local, Same
<1>3. CASE Confirm(b) \/ MarkPaid(b) \/ ResolveAttention(b) \/ Touch(b)
  BY <1>3, AdminStepSound
<1>4. CASE Cancel(b) \/ CustomerCancel(b) \/ Expire(b)
  <2>1. CancelInTransaction(b) /\ paid' = paid /\ online' = online
        /\ row[b].status # "absent"
    BY <1>4 DEF Cancel, CustomerCancel, Expire
  <2> QED BY <2>1, CancelSound DEF Sound, HoursOf, MoneyOf, Local, Same
<1>5. ASSUME NEW cells \in CellSets, NEW m \in Methods, NEW t \in Amounts,
             NEW w \in Minutes, Edit(b, cells, t, w, m)
      PROVE  Sound(b)' /\ Local(b)
  <2>1. t \in Nat /\ w \in Nat
    BY InputsAssumption
  <2> QED BY <1>5, <2>1, ApplyChangeSound DEF Edit
<1>6. CASE PriceDraft(b)
  BY <1>6 DEF PriceDraft, Sound, HoursOf, MoneyOf, Local, Same
<1>7. ASSUME NEW cells \in CellSets, NEW m \in Methods, NEW t \in Amounts,
             NEW w \in Int, CommitDraft(b, cells, t, w, m)
      PROVE  Sound(b)' /\ Local(b)
  <2>1. draft.total + t \in Nat
    BY <1>7, InputsAssumption DEF CommitDraft, CurrentDraft, TypeOK, Draft
  <2>2. draft.hours + w \in Nat
    BY <1>7, InputsAssumption DEF CommitDraft
  <2> QED BY <1>7, <2>1, <2>2, ApplyChangeSound DEF CommitDraft
<1>8. CASE PaymentSucceeded(b)
  BY <1>8, PaymentSucceededSound
<1>9. CASE PaymentCanceled(b)
  <2>1. /\ \A c \in Booking \ {b} : online'[c] = online[c]
        /\ online'[b] = "settled" /\ paid' = paid
    BY <1>9 DEF PaymentCanceled, TypeOK
  <2>2. CASE row[b].status = "hold"
    <3>1. CancelInTransaction(b)
      BY <1>9, <2>2 DEF PaymentCanceled
    <3> QED BY <2>1, <2>2, <3>1, CancelSound DEF Sound, HoursOf, MoneyOf, Local, Same
  <2>3. CASE row[b].status # "hold"
    <3>1. row' = row /\ net' = net
      BY <1>9, <2>3 DEF PaymentCanceled
    <3> QED BY <2>1, <3>1 DEF Sound, HoursOf, MoneyOf, Local, Same
  <2> QED BY <2>2, <2>3
<1>10. CASE PaymentUncertain(b) \/ Lapse(b)
  <2>1. /\ \A c \in Booking \ {b} : row'[c] = row[c]
        /\ row'[b].hours = row[b].hours /\ row'[b].owner = row[b].owner
        /\ row'[b].status = row[b].status /\ row'[b].total = row[b].total
        /\ row'[b].payment_status = row[b].payment_status
        /\ row'[b].method = row[b].method
    <3>1. CASE PaymentUncertain(b)
      BY <3>1 DEF PaymentUncertain, Save, TypeOK, Row
    <3>2. CASE Lapse(b)
      BY <3>2 DEF Lapse, Save, TypeOK, Row
    <3> QED BY <1>10, <3>1, <3>2
  <2>2. paid' = paid /\ net' = net /\ online' = online
    BY <1>10 DEF PaymentUncertain, Lapse
  <2>3. HoursOf(b)'
    BY <2>1, <2>2 DEF Sound, HoursOf
  <2>4. MoneyOf(b)'
    BY <2>1, <2>2 DEF Sound, MoneyOf
  <2> QED BY <2>1, <2>2, <2>3, <2>4 DEF Sound, Local, Same
<1>11. CASE SweepWrite(b)
  <2>1. CASE row' = row
    BY <1>11, <2>1 DEF SweepWrite, Sound, HoursOf, MoneyOf, Local, Same
  <2>2. ASSUME NEW s \in {"postpay", "postpay_warning", "overdue"},
               row[b].payment_status # "paid",
               Save(b, [row[b] EXCEPT !.payment_status = s])
        PROVE  Sound(b)' /\ Local(b)
    <3>1. /\ \A c \in Booking \ {b} : row'[c] = row[c]
          /\ row'[b].hours = row[b].hours /\ row'[b].owner = row[b].owner
          /\ row'[b].status = row[b].status /\ row'[b].method = row[b].method
          /\ row'[b].payment_status = s
      BY <2>2 DEF Save, TypeOK, Row
    <3> QED BY <1>11, <2>2, <3>1 DEF SweepWrite, Sound, HoursOf, MoneyOf, Local, Same
  <2> QED BY <1>11, <2>1, <2>2 DEF SweepWrite
<1>12. ASSUME NEW delta \in Int, AdjustBooking(b, delta)
       PROVE  Sound(b)' /\ Local(b)
  BY <1>12, AdjustBookingSound
<1>13. \A w \in Minutes : w \in Int /\ -w \in Int
  BY InputsAssumption
<1> QED
  BY <1>1, <1>2, <1>3, <1>4, <1>5, <1>6, <1>7, <1>8, <1>9, <1>10, <1>11, <1>12,
     <1>13 DEF BookingStep

LEMMA AllSound == Spec => [](\A b \in Booking : Sound(b))
<1>1. Init => \A b \in Booking : Sound(b)
  <2> SUFFICES ASSUME Init, NEW b \in Booking
               PROVE  Sound(b)
    OBVIOUS
  <2>1. /\ row[b].hours = 0 /\ ~row[b].owner /\ row[b].status = "absent"
        /\ row[b].payment_status = "unpaid"
    BY DEF Init, Absent
  <2>2. net[b] = 0 /\ online[b] = "none"
    BY DEF Init
  <2> QED BY <2>1, <2>2 DEF Sound, HoursOf, MoneyOf
<1>2. TypeOK /\ (\A b \in Booking : Sound(b)) /\ [Next]_vars
        => (\A b \in Booking : Sound(b))'
  <2> SUFFICES ASSUME TypeOK, \A b \in Booking : Sound(b), [Next]_vars,
                      NEW c \in Booking
               PROVE  Sound(c)'
    OBVIOUS
  <2>1. ASSUME NEW b \in Booking, BookingStep(b)
        PROVE  Sound(c)'
    <3>1. Sound(b)' /\ Local(b)
      BY <2>1, BookingStepSound
    <3>2. CASE c = b
      BY <3>1, <3>2
    <3>3. CASE c # b
      BY <3>1, <3>3 DEF Local, Same, Sound, HoursOf, MoneyOf
    <3> QED BY <3>2, <3>3
  <2>2. CASE DropDraft \/ SweepRead \/ AccountStep \/ UNCHANGED vars
    BY <2>2 DEF DropDraft, SweepRead, AccountStep, AdjustAccount, Renew, PeriodEnds,
                SetQuota, vars, Sound, HoursOf, MoneyOf
  <2> QED BY <2>1, <2>2 DEF Next
<1> QED BY <1>1, <1>2, TypeCorrect, PTL DEF Spec

\* The debited hours kept on a booking equal the ledger's, in every reachable state.
THEOREM HoursAreTheLedgers == Spec => []HoursMatchLedger
<1>1. (\A b \in Booking : Sound(b)) => HoursMatchLedger
  BY DEF Sound, HoursOf, HoursMatchLedger
<1> QED BY <1>1, AllSound, PTL

\* No booking is credited more hours than it was debited, and no debit takes the
\* account below zero.
THEOREM HoursReturnedOnce == Spec => []HoursNeverOverdrawn
<1>1. TypeOK /\ (\A b \in Booking : Sound(b)) => HoursNeverOverdrawn
  <2> SUFFICES ASSUME TypeOK, \A b \in Booking : Sound(b)
               PROVE  HoursNeverOverdrawn
    OBVIOUS
  <2>1. \A b \in Booking : row[b].hours \in Nat
    BY DEF TypeOK, Row
  <2>2. ASSUME NEW b \in Booking PROVE net[b] >= 0
    <3>1. row[b].hours = net[b]
      BY DEF Sound, HoursOf
    <3> QED BY <2>1, <3>1
  <2>3. account.balance >= 0
    BY DEF TypeOK, Account
  <2> QED BY <2>2, <2>3 DEF HoursNeverOverdrawn
<1> QED BY <1>1, AllSound, TypeCorrect, PTL

\* A booking marked paid has received at least its current total.
THEOREM PaidIsCovered == Spec => []PaidMeansCovered
<1>1. (\A b \in Booking : Sound(b)) => PaidMeansCovered
  BY DEF Sound, MoneyOf, PaidMeansCovered
<1> QED BY <1>1, AllSound, PTL

\* An approved booking is paid, or its payment was agreed for later.
THEOREM ApprovedIsPaid == Spec => []ConfirmedIsPaid
<1>1. (\A b \in Booking : Sound(b)) => ConfirmedIsPaid
  BY DEF Sound, MoneyOf, ConfirmedIsPaid
<1> QED BY <1>1, AllSound, PTL

-----------------------------------------------------------------------------
\* What a step may not do.

LEMMA CancelledStays ==
  ASSUME TypeOK, NEW b \in Booking, BookingStep(b), row[b].status = "cancelled"
  PROVE  row'[b].status = "cancelled"
<1>1. ASSUME NEW cells, NEW m, NEW t, NEW w, NEW o, Create(b, cells, m, t, w, o)
      PROVE  FALSE
  BY <1>1 DEF Create
<1>2. ASSUME NEW cells, NEW t \in Amounts, Block(b, cells, t)
      PROVE  FALSE
  BY <1>2 DEF Block
<1>3. CASE Confirm(b) \/ MarkPaid(b) \/ Cancel(b) \/ CustomerCancel(b) \/ Expire(b)
  BY <1>3 DEF Confirm, MarkPaid, Cancel, CustomerCancel, Expire
<1>4. CASE ResolveAttention(b)
  BY <1>4 DEF ResolveAttention, Save, TypeOK, Row
<1>5. CASE Touch(b)
  BY <1>5 DEF Touch, Save, TypeOK, Row
<1>6. ASSUME NEW cells, NEW m, NEW t, NEW w, ApplyChange(b, cells, t, w, m)
      PROVE  FALSE
  BY <1>6 DEF ApplyChange, Changeable
<1>7. CASE PriceDraft(b)
  BY <1>7 DEF PriceDraft
<1>8. CASE PaymentSucceeded(b)
  <2> DEFINE remaining == Positive(row[b].total - (paid[b] + row[b].total))
             conflict == row[b].status = "cancelled" \/ ~Free(b, row[b].cells)
  <2>1. row'[b].status = StatusAfterPayment(b, conflict, remaining)
    BY <1>8 DEF PaymentSucceeded, Save, TypeOK, Row
  <2> HIDE DEF remaining, conflict
  <2> QED BY <2>1 DEF StatusAfterPayment
<1>9. CASE PaymentCanceled(b)
  BY <1>9 DEF PaymentCanceled
<1>10. CASE PaymentUncertain(b)
  BY <1>10 DEF PaymentUncertain, Save, TypeOK, Row
<1>11. CASE Lapse(b)
  BY <1>11 DEF Lapse, TypeOK, Row
<1>12. CASE SweepWrite(b)
  BY <1>12 DEF SweepWrite
<1>13. ASSUME NEW delta, AdjustBooking(b, delta)
       PROVE  row'[b].status = "cancelled"
  BY <1>13 DEF AdjustBooking, Save, TypeOK, Row
<1> QED
  BY <1>1, <1>2, <1>3, <1>4, <1>5, <1>6, <1>7, <1>8, <1>9, <1>10, <1>11, <1>12,
     <1>13 DEF BookingStep, Edit, CommitDraft

\* No step, and in particular no late payment, takes a booking out of 'cancelled'.
THEOREM CancelledForGood == Spec => CancelledIsFinal
<1> DEFINE Kept == \A b \in Booking : row[b].status = "cancelled" => row'[b].status = "cancelled"
<1>1. TypeOK /\ [Next]_vars => [Kept]_vars
  <2> SUFFICES ASSUME TypeOK, [Next]_vars, NEW c \in Booking,
                      row[c].status = "cancelled"
               PROVE  row'[c].status = "cancelled"
    OBVIOUS
  <2>1. ASSUME NEW b \in Booking, BookingStep(b)
        PROVE  row'[c].status = "cancelled"
    <3>1. CASE c = b
      BY <2>1, <3>1, CancelledStays
    <3>2. CASE c # b
      <4>1. row'[c] = row[c]
        BY <2>1, <3>2, BookingStepIsCalendarStep DEF CalendarStep
      <4> QED BY <4>1
    <3> QED BY <3>1, <3>2
  <2>2. CASE DropDraft \/ SweepRead \/ AccountStep \/ UNCHANGED vars
    BY <2>2 DEF DropDraft, SweepRead, AccountStep, AdjustAccount, Renew, PeriodEnds,
                SetQuota, vars
  <2> QED BY <2>1, <2>2 DEF Next
<1> QED BY <1>1, TypeCorrect, PTL DEF Spec, CancelledIsFinal

-----------------------------------------------------------------------------
\* Extensions and transfers.

\* Why the revision check is enough: as long as the row's revision is the
\* draft's, the row's total is the one the draft was priced from.
DraftMatches ==
  /\ row[draft.id].status # "absent"
  /\ draft.revision <= row[draft.id].revision
  /\ draft.revision = row[draft.id].revision => draft.total = row[draft.id].total

DraftInv == draft # NoDraft => DraftMatches

\* A step that keeps a row's revision keeps its total.
Counts(b) ==
  /\ row'[b].status # "absent"
  /\ \/ row'[b].revision = row[b].revision + 1
     \/ row'[b].revision = row[b].revision /\ row'[b].total = row[b].total

LEMMA StepCounts ==
  ASSUME TypeOK, NEW b \in Booking, BookingStep(b), row[b].status # "absent"
  PROVE  Counts(b)
<1> USE DEF Counts
<1>1. ASSUME NEW cells, NEW m, NEW t, NEW w, NEW o, Create(b, cells, m, t, w, o)
      PROVE  FALSE
  BY <1>1 DEF Create
<1>2. ASSUME NEW cells, NEW t \in Amounts, Block(b, cells, t)
      PROVE  FALSE
  BY <1>2 DEF Block
<1>3. CASE Confirm(b)
  BY <1>3 DEF Confirm, Save, TypeOK, Row
<1>4. CASE MarkPaid(b)
  <2>1. row'[b].status \in {"awaiting_resolution", "confirmed", "awaiting_confirmation"}
    BY <1>4 DEF MarkPaid, Save, TypeOK, Row
  <2>2. row'[b].revision = row[b].revision + 1
    BY <1>4 DEF MarkPaid, Save, TypeOK, Row
  <2> QED BY <2>1, <2>2
<1>5. CASE ResolveAttention(b)
  BY <1>5 DEF ResolveAttention, Save, TypeOK, Row
<1>6. CASE Touch(b)
  BY <1>6 DEF Touch, Save, TypeOK, Row
<1>7. ASSUME CancelInTransaction(b)
      PROVE  Counts(b)
  BY <1>7 DEF CancelInTransaction, Save, TypeOK, Row
<1>8. ASSUME NEW cells, NEW m, NEW t, NEW w, ApplyChange(b, cells, t, w, m)
      PROVE  Counts(b)
  <2>1. row[b].status # "absent" /\ row'[b].revision = row[b].revision + 1
    BY <1>8 DEF ApplyChange, Save, TypeOK, Row
  <2>2. row'[b].status \in {"awaiting_payment", "awaiting_confirmation", row[b].status}
    BY <1>8 DEF ApplyChange, Save, TypeOK, Row
  <2> QED BY <2>1, <2>2
<1>9. CASE PriceDraft(b)
  BY <1>9 DEF PriceDraft
<1>10. CASE PaymentSucceeded(b)
  <2> DEFINE remaining == Positive(row[b].total - (paid[b] + row[b].total))
             conflict == row[b].status = "cancelled" \/ ~Free(b, row[b].cells)
  <2>1. /\ row'[b].status = StatusAfterPayment(b, conflict, remaining)
        /\ row'[b].revision = row[b].revision + 1
    BY <1>10 DEF PaymentSucceeded, Save, TypeOK, Row
  <2> HIDE DEF remaining, conflict
  <2> QED BY <2>1 DEF StatusAfterPayment
<1>11. CASE PaymentCanceled(b)
  BY <1>7, <1>11 DEF PaymentCanceled
<1>12. CASE PaymentUncertain(b)
  BY <1>12 DEF PaymentUncertain, Save, TypeOK, Row
<1>13. CASE Lapse(b)
  BY <1>13 DEF Lapse, TypeOK, Row
<1>14. CASE SweepWrite(b)
  <2>1. CASE row' = row
    BY <2>1
  <2>2. ASSUME NEW s, Save(b, [row[b] EXCEPT !.payment_status = s])
        PROVE  Counts(b)
    BY <2>2 DEF Save, TypeOK, Row
  <2> QED BY <1>14, <2>1, <2>2 DEF SweepWrite
<1>15. ASSUME NEW delta, AdjustBooking(b, delta)
       PROVE  Counts(b)
  BY <1>15 DEF AdjustBooking, Save, TypeOK, Row
<1> QED
  BY <1>1, <1>2, <1>3, <1>4, <1>5, <1>6, <1>7, <1>8, <1>9, <1>10, <1>11, <1>12,
     <1>13, <1>14, <1>15
  DEF BookingStep, Edit, CommitDraft, Cancel, CustomerCancel, Expire

\* Only PriceDraft makes a draft and only a commit or DropDraft ends one.
LEMMA DraftSteps ==
  ASSUME TypeOK, NEW b \in Booking, BookingStep(b)
  PROVE  \/ draft' = draft
         \/ PriceDraft(b)
         \/ \E cells \in CellSets, m \in Methods, t \in Amounts, h \in Int :
              CommitDraft(b, cells, t, h, m)
<1>1. ASSUME NEW cells, NEW m, NEW t, NEW w, NEW o, Create(b, cells, m, t, w, o)
      PROVE  draft' = draft
  BY <1>1 DEF Create
<1>2. ASSUME NEW cells, NEW t \in Amounts, Block(b, cells, t)
      PROVE  draft' = draft
  BY <1>2 DEF Block
<1>3. CASE Confirm(b) \/ MarkPaid(b) \/ ResolveAttention(b) \/ Touch(b)
  BY <1>3 DEF Confirm, MarkPaid, ResolveAttention, Touch
<1>4. CASE Cancel(b) \/ CustomerCancel(b) \/ Expire(b)
  BY <1>4 DEF Cancel, CustomerCancel, Expire
<1>5. ASSUME NEW cells, NEW m, NEW t, NEW w, Edit(b, cells, t, w, m)
      PROVE  draft' = draft
  BY <1>5 DEF Edit
<1>6. CASE PaymentSucceeded(b) \/ PaymentCanceled(b) \/ PaymentUncertain(b)
  BY <1>6 DEF PaymentSucceeded, PaymentCanceled, PaymentUncertain
<1>7. CASE Lapse(b) \/ SweepWrite(b)
  BY <1>7 DEF Lapse, SweepWrite
<1>8. ASSUME NEW delta, AdjustBooking(b, delta)
      PROVE  draft' = draft
  BY <1>8 DEF AdjustBooking
<1>9. \A w \in Minutes : w \in Int /\ -w \in Int
  BY InputsAssumption
<1> QED BY <1>1, <1>2, <1>3, <1>4, <1>5, <1>6, <1>7, <1>8, <1>9 DEF BookingStep

LEMMA DraftInvHolds == Spec => []DraftInv
<1>1. Init => DraftInv
  BY DEF Init, DraftInv
<1>2. TypeOK /\ DraftInv /\ [Next]_vars => DraftInv'
  <2> SUFFICES ASSUME TypeOK, DraftInv, [Next]_vars, draft' # NoDraft
               PROVE  DraftMatches'
    BY DEF DraftInv
  <2>0. ASSUME draft' = draft
        PROVE  /\ draft \in Draft /\ draft.id \in Booking /\ DraftMatches
               /\ row[draft.id].revision \in Nat /\ draft.revision \in Nat
    BY <2>0 DEF DraftInv, TypeOK, Draft, Row
  <2>1. ASSUME NEW b \in Booking, BookingStep(b)
        PROVE  DraftMatches'
    <3>1. CASE PriceDraft(b)
      <4>1. /\ draft'.id = b /\ draft'.revision = row[b].revision
            /\ draft'.total = row[b].total /\ row' = row /\ row[b].status # "absent"
        BY <3>1 DEF PriceDraft
      <4>2. row[b].revision \in Nat
        BY DEF TypeOK, Row
      <4> QED BY <4>1, <4>2 DEF DraftMatches
    <3>2. CASE draft' = draft
      <4>1. CASE draft.id = b
        <5>1. Counts(b)
          BY <2>0, <2>1, <3>2, <4>1, StepCounts DEF DraftMatches
        <5> QED BY <2>0, <3>2, <4>1, <5>1 DEF Counts, DraftMatches
      <4>2. CASE draft.id # b
        <5>1. row'[draft.id] = row[draft.id]
          BY <2>0, <2>1, <3>2, <4>2, BookingStepIsCalendarStep DEF CalendarStep
        <5> QED BY <2>0, <3>2, <5>1 DEF DraftMatches
      <4> QED BY <4>1, <4>2
    <3>3. ASSUME NEW cells, NEW m, NEW t, NEW h, CommitDraft(b, cells, t, h, m)
          PROVE  FALSE
      BY <3>3 DEF CommitDraft
    <3> QED BY <2>1, <3>1, <3>2, <3>3, DraftSteps
  <2>2. CASE DropDraft
    BY <2>2 DEF DropDraft
  <2>3. CASE SweepRead \/ AccountStep \/ UNCHANGED vars
    <3>1. row' = row /\ draft' = draft
      BY <2>3 DEF SweepRead, AccountStep, AdjustAccount, Renew, PeriodEnds, SetQuota, vars
    <3> QED BY <2>0, <3>1 DEF DraftMatches
  <2> QED BY <2>1, <2>2, <2>3 DEF Next
<1> QED BY <1>1, <1>2, TypeCorrect, PTL DEF Spec

\* The commit of an extension never lowers the total the booking has by then.
THEOREM ExtensionsOnlyAdd == Spec => ExtensionKeepsCharges
<1> DEFINE Kept == \A b \in Booking :
                     draft # NoDraft /\ draft.id = b /\ draft' = NoDraft =>
                       row'[b].total >= row[b].total
<1>1. TypeOK /\ DraftInv /\ [Next]_vars => [Kept]_vars
  <2> SUFFICES ASSUME TypeOK, DraftInv, [Next]_vars, draft # NoDraft, draft' = NoDraft
               PROVE  row'[draft.id].total >= row[draft.id].total
    OBVIOUS
  <2>0. draft \in Draft /\ draft.id \in Booking /\ row[draft.id].total \in Nat
    BY DEF TypeOK, Draft, Row
  <2>1. ASSUME NEW b \in Booking, BookingStep(b)
        PROVE  row'[draft.id].total >= row[draft.id].total
    <3>1. ~PriceDraft(b)
      BY DEF PriceDraft
    <3>2. PICK cells \in CellSets, m \in Methods, t \in Amounts, h \in Int :
            CommitDraft(b, cells, t, h, m)
      BY <2>1, <3>1, DraftSteps
    <3>3. draft.id = b /\ draft.total = row[b].total
      BY <3>2 DEF CommitDraft, CurrentDraft, DraftInv, DraftMatches
    <3>4. row'[b].total = draft.total + t
      BY <3>2 DEF CommitDraft, ApplyChange, Save, TypeOK, Row
    <3>5. t \in Nat
      BY InputsAssumption
    <3> QED BY <2>0, <3>3, <3>4, <3>5
  <2>2. CASE DropDraft
    BY <2>0, <2>2 DEF DropDraft
  <2>3. CASE SweepRead \/ AccountStep \/ UNCHANGED vars
    BY <2>3 DEF SweepRead, AccountStep, AdjustAccount, Renew, PeriodEnds, SetQuota, vars
  <2> QED BY <2>1, <2>2, <2>3 DEF Next
<1> QED BY <1>1, TypeCorrect, DraftInvHolds, PTL DEF Spec, ExtensionKeepsCharges

-----------------------------------------------------------------------------
\* Money of bookings that do not take place.

\* What StrandedMoneyFlagged says of one booking and one step.
Flagged(b) ==
  Stranded(b)' /\ ~row'[b].attention =>
    \/ Stranded(b) /\ ~row[b].attention /\ paid'[b] = paid[b]
    \/ ResolveAttention(b)

LEMMA StepFlags ==
  ASSUME TypeOK, NEW b \in Booking, BookingStep(b)
  PROVE  Flagged(b)
<1> USE DEF Flagged, Stranded
<1>1. ASSUME NEW cells, NEW m, NEW t, NEW w, NEW o, Create(b, cells, m, t, w, o)
      PROVE  Flagged(b)
  <2>1. row'[b].status = InitialPayment(m, t, o).status
    BY <1>1 DEF Create, TypeOK
  <2> QED BY <2>1 DEF InitialPayment
<1>2. ASSUME NEW cells, NEW t \in Amounts, Block(b, cells, t)
      PROVE  Flagged(b)
  BY <1>2 DEF Block, TypeOK, Absent
<1>3. CASE Confirm(b)
  BY <1>3 DEF Confirm, Save, TypeOK, Row
<1>4. CASE MarkPaid(b)
  <2>1. /\ row'[b].attention = ~Free(b, row[b].cells)
        /\ Free(b, row[b].cells) =>
             row'[b].status \in {"confirmed", "awaiting_confirmation"}
    BY <1>4 DEF MarkPaid, Save, TypeOK, Row
  <2>2. CASE Free(b, row[b].cells)
    BY <2>1, <2>2
  <2>3. CASE ~Free(b, row[b].cells)
    BY <2>1, <2>3
  <2> QED BY <2>2, <2>3
<1>5. CASE ResolveAttention(b)
  BY <1>5
<1>6. CASE Touch(b)
  BY <1>6 DEF Touch, Save, TypeOK, Row
<1>7. ASSUME CancelInTransaction(b), paid' = paid
      PROVE  Flagged(b)
  <2>1. row'[b].attention = (paid[b] > 0)
    BY <1>7 DEF CancelInTransaction, Save, TypeOK, Row
  <2> QED BY <1>7, <2>1
<1>8. ASSUME NEW cells, NEW m, NEW t, NEW w, ApplyChange(b, cells, t, w, m)
      PROVE  Flagged(b)
  <2>1. row[b].status \in Changeable
    BY <1>8 DEF ApplyChange
  <2>2. row'[b].status = (IF Due(b, t) THEN "awaiting_payment"
                          ELSE IF row[b].status = "awaiting_resolution"
                            THEN "awaiting_confirmation" ELSE row[b].status)
    BY <1>8 DEF ApplyChange, Save, TypeOK, Row
  <2> QED BY <2>1, <2>2 DEF Changeable
<1>9. CASE PriceDraft(b)
  BY <1>9 DEF PriceDraft
<1>10. CASE PaymentSucceeded(b)
  <2> DEFINE remaining == Positive(row[b].total - (paid[b] + row[b].total))
             conflict == row[b].status = "cancelled" \/ ~Free(b, row[b].cells)
  <2>1. /\ row'[b].status = StatusAfterPayment(b, conflict, remaining)
        /\ conflict => row'[b].attention
    BY <1>10 DEF PaymentSucceeded, Save, TypeOK, Row
  <2>2. row[b].status = "cancelled" => conflict
    OBVIOUS
  <2> HIDE DEF remaining, conflict
  <2> QED BY <2>1, <2>2 DEF StatusAfterPayment
<1>11. CASE PaymentCanceled(b)
  <2>1. CASE row[b].status = "hold"
    BY <1>7, <1>11, <2>1 DEF PaymentCanceled
  <2>2. CASE row[b].status # "hold"
    BY <1>11, <2>2 DEF PaymentCanceled
  <2> QED BY <2>1, <2>2
<1>12. CASE PaymentUncertain(b)
  BY <1>12 DEF PaymentUncertain, Save, TypeOK, Row
<1>13. CASE Lapse(b)
  <2>1. row'[b].status = row[b].status /\ row'[b].attention = row[b].attention
    BY <1>13 DEF Lapse, TypeOK, Row
  <2> QED BY <1>13, <2>1 DEF Lapse
<1>14. CASE SweepWrite(b)
  <2>1. CASE row' = row
    BY <1>14, <2>1 DEF SweepWrite
  <2>2. ASSUME NEW s, Save(b, [row[b] EXCEPT !.payment_status = s])
        PROVE  Flagged(b)
    <3>1. row'[b].status = row[b].status /\ row'[b].attention = row[b].attention
      BY <2>2 DEF Save, TypeOK, Row
    <3> QED BY <1>14, <3>1 DEF SweepWrite
  <2> QED BY <1>14, <2>1, <2>2 DEF SweepWrite
<1>15. ASSUME NEW delta, AdjustBooking(b, delta)
       PROVE  Flagged(b)
  <2>1. row'[b].status = row[b].status /\ row'[b].attention = row[b].attention
    BY <1>15 DEF AdjustBooking, Save, TypeOK, Row
  <2> QED BY <1>15, <2>1 DEF AdjustBooking
<1> QED
  BY <1>1, <1>2, <1>3, <1>4, <1>5, <1>6, <1>7, <1>8, <1>9, <1>10, <1>11, <1>12,
     <1>13, <1>14, <1>15
  DEF BookingStep, Edit, CommitDraft, Cancel, CustomerCancel, Expire

\* Money received for a booking that is cancelled or lost its room is flagged in
\* the very step that strands it, and stays so until an administrator decides.
THEOREM StrandedMoneyIsFlagged == Spec => StrandedMoneyFlagged
<1> DEFINE Kept == \A b \in Booking : Flagged(b)
<1>1. TypeOK /\ (\A b \in Booking : Sound(b)) /\ [Next]_vars => [Kept]_vars
  <2> SUFFICES ASSUME TypeOK, \A b \in Booking : Sound(b), [Next]_vars, NEW c \in Booking
               PROVE  Flagged(c) \/ UNCHANGED vars
    OBVIOUS
  <2>1. ASSUME NEW b \in Booking, BookingStep(b)
        PROVE  Flagged(c)
    <3>1. CASE c = b
      BY <2>1, <3>1, StepFlags
    <3>2. CASE c # b
      <4>1. Same(c)
        BY <2>1, <3>2, BookingStepSound DEF Local
      <4> QED BY <4>1 DEF Same, Flagged, Stranded
    <3> QED BY <3>1, <3>2
  <2>2. CASE DropDraft \/ SweepRead \/ AccountStep
    <3>1. row' = row /\ paid' = paid
      BY <2>2 DEF DropDraft, SweepRead, AccountStep, AdjustAccount, Renew, PeriodEnds,
                  SetQuota
    <3> QED BY <3>1 DEF Flagged, Stranded
  <2> QED BY <2>1, <2>2 DEF Next
<1>2. [Kept]_vars => [\A b \in Booking :
       Stranded(b)' /\ ~row'[b].attention =>
         \/ Stranded(b) /\ ~row[b].attention /\ paid'[b] = paid[b]
         \/ ResolveAttention(b)]_vars
  BY DEF Flagged
<1> QED BY <1>1, <1>2, TypeCorrect, AllSound, PTL DEF Spec, StrandedMoneyFlagged

-----------------------------------------------------------------------------
(***************************************************************************)
(* Bookings that are paid online.  OnHold is what the table itself knows   *)
(* of such a booking; with rooms that are never promised twice, a hold     *)
(* that has not lapsed finds its cells free when it is paid.               *)
(***************************************************************************)

OnHold(b) ==
  /\ row[b].status = "absent" => online[b] = "none" /\ paid[b] = 0
  /\ row[b].status = "hold" => online[b] = "open" /\ row[b].expires # "none"
  /\ online[b] = "open" =>
       /\ row[b].status \in {"hold", "cancelled"}
       /\ row[b].method = "card_online" /\ row[b].payment_status # "paid"
       /\ row[b].total > 0 /\ paid[b] = 0
  /\ online[b] = "settled" /\ row[b].status # "cancelled" => paid[b] > 0
  /\ row[b].status = "awaiting_resolution" => row[b].attention

\* A step of the booking keeps OnHold and is a step of its online hold.
HoldKept(b) ==
  /\ OnHold(b)'
  /\ Hold(b)!Next \/ UNCHANGED Hold(b)!hold

LEMMA HoldTypes ==
  ASSUME TypeOK, NEW b \in Booking
  PROVE  /\ row[b] \in Row /\ row[b].attention \in BOOLEAN
         /\ paid[b] \in Nat /\ row[b].total \in Nat
         /\ online[b] \in {"none", "open", "settled"}
BY DEF TypeOK, Row

\* What the hold looks at is as before, and nothing here becomes paid.
LEMMA HoldIdle ==
  ASSUME TypeOK, NEW b \in Booking, OnHold(b),
         row'[b].status = row[b].status, row'[b].expires = row[b].expires,
         row'[b].method = row[b].method, row'[b].total = row[b].total,
         row'[b].attention = row[b].attention,
         row'[b].payment_status = "paid" => row[b].payment_status = "paid",
         paid'[b] = paid[b], online'[b] = online[b]
  PROVE  HoldKept(b)
<1>1. OnHold(b)'
  BY DEF OnHold
<1>2. StageOf(b)' = StageOf(b) /\ MoneyOfHold(b)' = MoneyOfHold(b)
  BY DEF StageOf, MoneyOfHold
<1> QED BY <1>1, <1>2 DEF HoldKept, Hold!hold

\* The office works on a booking whose hold, if it had one, is over.
LEMMA HoldWork ==
  ASSUME TypeOK, TypeOK', NEW b \in Booking, OnHold(b),
         row[b].status \notin {"absent", "hold", "cancelled"},
         row'[b].status \notin {"absent", "hold", "cancelled"},
         paid'[b] >= paid[b], online'[b] = online[b],
         row'[b].status = "awaiting_resolution" => row'[b].attention
  PROVE  HoldKept(b)
<1>t. /\ paid[b] \in Nat /\ paid'[b] \in Nat /\ row'[b].attention \in BOOLEAN
      /\ online[b] \in {"none", "open", "settled"}
  BY DEF TypeOK, Row
<1>1. online[b] # "open"
  BY DEF OnHold
<1>2. OnHold(b)'
  BY <1>t, <1>1 DEF OnHold
<1>3. CASE online[b] = "none"
  BY <1>2, <1>3 DEF HoldKept, Hold!hold, StageOf, MoneyOfHold
<1>4. CASE online[b] = "settled"
  <2>1. /\ StageOf(b) \in {"booked", "conflict"} /\ StageOf(b)' \in {"booked", "conflict"}
        /\ StageOf(b)' = "conflict" => row'[b].attention
    BY <1>4 DEF StageOf
  <2>2. MoneyOfHold(b) = "received" /\ MoneyOfHold(b)' = "received"
    BY <1>t, <1>4, <1>2 DEF MoneyOfHold, OnHold
  <2>3. Hold(b)!Work
    BY <1>t, <1>4, <2>1, <2>2 DEF Hold!Work, Hold!Decided
  <2> QED BY <1>2, <2>3 DEF HoldKept, Hold!Next
<1> QED BY <1>t, <1>1, <1>3, <1>4

\* cancelInTransaction, for whatever reason but a payment's end.
LEMMA HoldCancel ==
  ASSUME TypeOK, NEW b \in Booking, OnHold(b),
         row[b].status \notin {"absent", "cancelled"}, CancelInTransaction(b),
         paid' = paid, online' = online
  PROVE  HoldKept(b)
<1>t. /\ paid[b] \in Nat /\ online[b] \in {"none", "open", "settled"} /\ row[b] \in Row
  BY HoldTypes
<1>1. /\ row'[b].status = "cancelled" /\ row'[b].attention = (paid[b] > 0)
      /\ row'[b].method = row[b].method /\ row'[b].total = row[b].total
      /\ row'[b].payment_status = row[b].payment_status
  BY DEF CancelInTransaction, Save, TypeOK, Row
<1>2. OnHold(b)'
  BY <1>1 DEF OnHold
<1>3. CASE online[b] = "none"
  BY <1>2, <1>3 DEF HoldKept, Hold!hold, StageOf, MoneyOfHold
<1>4. CASE online[b] # "none"
  <2>1. StageOf(b) \in {"hold", "lapsed", "booked", "conflict"} /\ StageOf(b)' = "cancelled"
    BY <1>1, <1>4 DEF StageOf
  <2>2. MoneyOfHold(b)' = MoneyOfHold(b) /\ (MoneyOfHold(b) = "received" <=> paid[b] > 0)
    BY <1>t, <1>4 DEF MoneyOfHold, OnHold
  <2>3. (online'[b] # "none" /\ row'[b].attention) = (MoneyOfHold(b) = "received")
    BY <1>1, <1>4, <2>2
  <2>4. Hold(b)!Cancel
    BY <2>1, <2>2, <2>3 DEF Hold!Cancel, Hold!Waiting, Hold!Decided
  <2> QED BY <1>2, <2>4 DEF HoldKept, Hold!Next
<1> QED BY <1>3, <1>4

LEMMA HoldOpens ==
  ASSUME TypeOK, TypeOK', NEW b \in Booking, OnHold(b), NEW cells, NEW m \in Methods, NEW t \in Amounts,
         NEW w, NEW o \in BOOLEAN, Create(b, cells, m, t, w, o)
  PROVE  HoldKept(b)
<1> DEFINE p == InitialPayment(m, t, o)
<1>t. t \in Nat
  BY InputsAssumption
<1>0. online[b] = "none" /\ paid[b] = 0 /\ paid' = paid
  BY DEF OnHold, Create
<1>1. /\ row'[b].status = p.status /\ row'[b].expires = p.expires /\ row'[b].total = t
      /\ row'[b].method = p.method /\ row'[b].payment_status = p.payment_status
      /\ row'[b].attention = FALSE
      /\ online'[b] = IF p.status = "hold" THEN "open" ELSE "none"
  BY DEF Create, TypeOK
<1>2. /\ p.status \in {"hold", "guest_request", "awaiting_confirmation", "awaiting_payment"}
      /\ p.status = "hold" =>
           p.expires = "ahead" /\ p.method = "card_online" /\ p.payment_status = "unpaid" /\ t # 0
  BY DEF InitialPayment
<1> HIDE DEF p
<1>3. OnHold(b)'
  BY <1>t, <1>0, <1>1, <1>2 DEF OnHold
<1>4. CASE p.status # "hold"
  BY <1>0, <1>1, <1>3, <1>4 DEF HoldKept, Hold!hold, StageOf, MoneyOfHold
<1>5. CASE p.status = "hold"
  <2>1. StageOf(b) = "none" /\ StageOf(b)' = "hold"
    BY <1>0, <1>1, <1>2, <1>5 DEF StageOf
  <2>2. MoneyOfHold(b)' = MoneyOfHold(b)
    BY <1>0, <1>1, <1>5 DEF MoneyOfHold
  <2> QED BY <1>1, <1>3, <2>1, <2>2 DEF HoldKept, Hold!Next, Hold!Open
<1> QED BY <1>4, <1>5

\* The room of a hold that has not lapsed is nobody else's.
LEMMA HeldRoomIsFree ==
  ASSUME NoDoubleBooking, NEW b \in Booking, row[b].status = "hold", row[b].expires # "passed"
  PROVE  Free(b, row[b].cells)
BY DEF NoDoubleBooking, Live, Free, BlocksAvailability

LEMMA HoldReceives ==
  ASSUME TypeOK, TypeOK', NoDoubleBooking, NEW b \in Booking, OnHold(b), PaymentSucceeded(b)
  PROVE  HoldKept(b)
<1> DEFINE conflict == row[b].status = "cancelled" \/ ~Free(b, row[b].cells)
           remaining == Positive(row[b].total - (paid[b] + row[b].total))
<1>t. paid[b] \in Nat /\ row[b].total \in Nat /\ row'[b].attention \in BOOLEAN
  BY DEF TypeOK, Row
<1>0. /\ online[b] = "open" /\ online'[b] = "settled"
      /\ row[b].status \in {"hold", "cancelled"} /\ row[b].total > 0 /\ paid[b] = 0
  BY DEF PaymentSucceeded, OnHold, TypeOK
<1>1. /\ row'[b].status = StatusAfterPayment(b, conflict, remaining)
      /\ conflict => row'[b].attention
  BY DEF PaymentSucceeded, Save, TypeOK, Row
<1>2. paid'[b] = row[b].total /\ remaining = 0
  <2>1. paid'[b] = paid[b] + row[b].total
    BY DEF PaymentSucceeded, TypeOK
  <2> QED BY <1>t, <1>0, <2>1 DEF Positive
<1>3. MoneyOfHold(b) = "awaited" /\ MoneyOfHold(b)' = "received"
  BY <1>0, <1>2 DEF MoneyOfHold
<1>4. row[b].status = "cancelled" => conflict
  OBVIOUS
<1>5. row[b].status = "hold" /\ conflict => row[b].expires = "passed"
  BY HeldRoomIsFree
<1> HIDE DEF conflict, remaining
<1>6. CASE row[b].status = "cancelled"
  <2>1. row'[b].status = "cancelled" /\ row'[b].attention
    BY <1>1, <1>4, <1>6 DEF StatusAfterPayment
  <2>2. StageOf(b) = "cancelled" /\ StageOf(b)' = "cancelled"
    BY <1>0, <1>6, <2>1 DEF StageOf
  <2>3. OnHold(b)'
    BY <1>0, <2>1 DEF OnHold
  <2>4. Hold(b)!Receive
    BY <1>t, <1>0, <1>3, <2>1, <2>2 DEF Hold!Receive
  <2> QED BY <2>3, <2>4 DEF HoldKept, Hold!Next
<1>7. CASE row[b].status = "hold" /\ conflict
  <2>1. row'[b].status = "awaiting_resolution" /\ row'[b].attention
    BY <1>1, <1>7 DEF StatusAfterPayment
  <2>2. StageOf(b) = "lapsed" /\ StageOf(b)' = "conflict"
    BY <1>0, <1>5, <1>7, <2>1 DEF StageOf
  <2>3. OnHold(b)'
    BY <1>0, <1>2, <2>1 DEF OnHold
  <2>4. Hold(b)!Receive
    BY <1>t, <1>0, <1>3, <2>1, <2>2 DEF Hold!Receive, Hold!Waiting
  <2> QED BY <2>3, <2>4 DEF HoldKept, Hold!Next
<1>8. CASE row[b].status = "hold" /\ ~conflict
  <2>1. row'[b].status = "awaiting_confirmation"
    BY <1>1, <1>2, <1>8 DEF StatusAfterPayment
  <2>2. StageOf(b) \in {"hold", "lapsed"} /\ StageOf(b)' = "booked"
    BY <1>0, <1>8, <2>1 DEF StageOf
  <2>3. OnHold(b)'
    BY <1>0, <1>2, <2>1 DEF OnHold
  <2>4. Hold(b)!Receive
    BY <1>t, <1>0, <1>3, <2>1, <2>2 DEF Hold!Receive, Hold!Waiting
  <2> QED BY <2>3, <2>4 DEF HoldKept, Hold!Next
<1> QED BY <1>0, <1>6, <1>7, <1>8

LEMMA HoldVoids ==
  ASSUME TypeOK, NEW b \in Booking, OnHold(b), PaymentCanceled(b)
  PROVE  HoldKept(b)
<1>0. /\ online[b] = "open" /\ online'[b] = "settled" /\ paid'[b] = 0 /\ paid[b] = 0
      /\ row[b].status \in {"hold", "cancelled"}
  BY DEF PaymentCanceled, OnHold, TypeOK
<1>1. /\ row'[b].status = "cancelled"
      /\ IF row[b].status = "hold" THEN row'[b].attention = FALSE
                                   ELSE row'[b].attention = row[b].attention
  <2>1. CASE row[b].status = "hold"
    <3>0. CancelInTransaction(b)
      BY <2>1 DEF PaymentCanceled
    <3>1. row'[b].status = "cancelled" /\ row'[b].attention = (paid[b] > 0)
      BY <3>0 DEF CancelInTransaction, Save, TypeOK, Row
    <3>2. (paid[b] > 0) = FALSE
      BY <1>0
    <3> QED BY <2>1, <3>1, <3>2
  <2>2. CASE row[b].status = "cancelled"
    BY <2>2 DEF PaymentCanceled
  <2> QED BY <1>0, <2>1, <2>2
<1>2. MoneyOfHold(b) = "awaited" /\ MoneyOfHold(b)' = "void"
  BY <1>0 DEF MoneyOfHold
<1>3. OnHold(b)'
  BY <1>0, <1>1 DEF OnHold
<1>4. StageOf(b)' = "cancelled" /\ StageOf(b) \in {"hold", "lapsed", "cancelled"}
      /\ (StageOf(b) = "cancelled" <=> row[b].status = "cancelled")
  BY <1>0, <1>1 DEF StageOf
<1>5. Hold(b)!Void
  BY <1>0, <1>1, <1>2, <1>4 DEF Hold!Void, Hold!Waiting
<1> QED BY <1>3, <1>5 DEF HoldKept, Hold!Next

LEMMA HoldDoubts ==
  ASSUME TypeOK, NEW b \in Booking, OnHold(b), PaymentUncertain(b)
  PROVE  HoldKept(b)
<1>1. /\ row'[b].status = row[b].status /\ row'[b].expires = row[b].expires
      /\ row'[b].method = row[b].method /\ row'[b].total = row[b].total
      /\ row'[b].payment_status = row[b].payment_status /\ row'[b].attention = TRUE
  BY DEF PaymentUncertain, Save, TypeOK, Row
<1>2. online[b] # "none" /\ row[b].expires # "ahead" /\ UNCHANGED <<online, paid>>
  BY DEF PaymentUncertain
<1>3. OnHold(b)'
  BY <1>1, <1>2 DEF OnHold
<1>4. StageOf(b) \in {"lapsed", "cancelled"} \cup Hold(b)!Decided /\ StageOf(b)' = StageOf(b)
  BY <1>1, <1>2, HoldTypes DEF StageOf, OnHold, Row, Expiry, Hold!Decided
<1>5. MoneyOfHold(b)' = MoneyOfHold(b)
  BY <1>2 DEF MoneyOfHold
<1>6. Hold(b)!Doubt
  BY <1>1, <1>2, <1>4, <1>5 DEF Hold!Doubt
<1> QED BY <1>3, <1>6 DEF HoldKept, Hold!Next

\* An administrator has looked.
LEMMA HoldResolved ==
  ASSUME TypeOK, NEW b \in Booking, OnHold(b), ResolveAttention(b)
  PROVE  HoldKept(b)
<1>1. /\ row'[b].status = row[b].status /\ row'[b].expires = row[b].expires
      /\ row'[b].method = row[b].method /\ row'[b].total = row[b].total
      /\ row'[b].payment_status = row[b].payment_status /\ row'[b].attention = FALSE
      /\ row[b].status \notin {"absent", "awaiting_resolution"} /\ UNCHANGED <<online, paid>>
  BY DEF ResolveAttention, Save, TypeOK, Row
<1>2. OnHold(b)'
  BY <1>1 DEF OnHold
<1>3. StageOf(b)' = StageOf(b) /\ MoneyOfHold(b)' = MoneyOfHold(b)
  BY <1>1 DEF StageOf, MoneyOfHold
<1>4. CASE online[b] = "none"
  BY <1>1, <1>2, <1>3, <1>4 DEF HoldKept, Hold!hold
<1>5. CASE online[b] # "none"
  <2>1. StageOf(b) \in {"hold", "lapsed", "booked", "cancelled"}
    BY <1>1, <1>5 DEF StageOf
  <2>2. Hold(b)!Resolve
    BY <1>1, <1>3, <2>1 DEF Hold!Resolve, Hold!Waiting
  <2> QED BY <1>2, <2>2 DEF HoldKept, Hold!Next
<1> QED BY <1>4, <1>5

LEMMA HoldLapses ==
  ASSUME TypeOK, NEW b \in Booking, OnHold(b), Lapse(b)
  PROVE  HoldKept(b)
<1>1. /\ row[b].expires = "ahead" /\ row'[b].expires = "passed"
      /\ row'[b].status = row[b].status
      /\ row'[b].method = row[b].method /\ row'[b].total = row[b].total
      /\ row'[b].payment_status = row[b].payment_status /\ row'[b].attention = row[b].attention
      /\ UNCHANGED <<online, paid>>
  BY DEF Lapse, TypeOK, Row
<1>2. OnHold(b)'
  BY <1>1 DEF OnHold
<1>3. MoneyOfHold(b)' = MoneyOfHold(b)
  BY <1>1 DEF MoneyOfHold
<1>4. StageOf(b)' = StageOf(b) \/ (StageOf(b) = "hold" /\ StageOf(b)' = "lapsed")
  BY <1>1 DEF StageOf
<1>5. Hold(b)!Next \/ UNCHANGED Hold(b)!hold
  BY <1>1, <1>3, <1>4 DEF Hold!Next, Hold!Lapse, Hold!hold
<1> QED BY <1>2, <1>5 DEF HoldKept

LEMMA HoldChanges ==
  ASSUME TypeOK, TypeOK', NEW b \in Booking, OnHold(b), NEW cells, NEW t, NEW w, NEW m,
         ApplyChange(b, cells, t, w, m)
  PROVE  HoldKept(b)
<1>1. row[b].status \in Changeable /\ UNCHANGED <<paid, online>>
  BY DEF ApplyChange
<1>2. row'[b].status = (IF Due(b, t) THEN "awaiting_payment"
                        ELSE IF row[b].status = "awaiting_resolution"
                          THEN "awaiting_confirmation" ELSE row[b].status)
  BY DEF ApplyChange, Save, TypeOK, Row
<1>3. /\ row'[b].status \in {"awaiting_payment", "awaiting_confirmation", "confirmed"}
      /\ row[b].status \notin {"absent", "hold", "cancelled"}
  BY <1>1, <1>2 DEF Changeable
<1>4. paid'[b] >= paid[b] /\ online'[b] = online[b]
  BY <1>1 DEF TypeOK
<1> QED BY <1>3, <1>4, HoldWork

LEMMA BookingStepHold ==
  ASSUME TypeOK, TypeOK', NoDoubleBooking, NEW b \in Booking, OnHold(b), BookingStep(b)
  PROVE  HoldKept(b)
<1>t. paid[b] \in Nat /\ row[b] \in Row /\ row[b].total \in Nat
  BY HoldTypes
<1>1. ASSUME NEW cells \in CellSets, NEW m \in Methods, NEW t \in Amounts,
             NEW w \in Minutes, NEW o \in BOOLEAN, Create(b, cells, m, t, w, o)
      PROVE  HoldKept(b)
  BY <1>1, HoldOpens
<1>2. ASSUME NEW cells \in CellSets, NEW t \in Amounts, Block(b, cells, t)
      PROVE  HoldKept(b)
  <2>1. /\ online[b] = "none" /\ paid[b] = 0 /\ UNCHANGED <<online, paid>>
        /\ row'[b].status = "blocked"
    BY <1>2 DEF Block, OnHold, TypeOK, Absent
  <2> QED BY <2>1 DEF HoldKept, OnHold, Hold!hold, StageOf, MoneyOfHold
<1>3. CASE Confirm(b)
  <2>1. /\ row[b].status \notin {"absent", "cancelled"} /\ MayConfirm(b) /\ UNCHANGED <<paid, online>>
        /\ row'[b].status = "confirmed"
    BY <1>3 DEF Confirm, Save, TypeOK, Row
  <2>2. row[b].status # "hold"
    BY <2>1 DEF MayConfirm, OnHold
  <2>3. paid'[b] >= paid[b] /\ online'[b] = online[b]
    BY <1>t, <2>1
  <2> QED BY <2>1, <2>2, <2>3, HoldWork
<1>4. CASE MarkPaid(b)
  <2>1. /\ row[b].status \notin {"absent", "cancelled"}
        /\ row[b].method \in {"cash", "invoice", "postpay"} /\ UNCHANGED online
        /\ row'[b].attention = ~Free(b, row[b].cells)
        /\ row'[b].status = IF ~Free(b, row[b].cells) THEN "awaiting_resolution"
                            ELSE IF row[b].status = "confirmed" THEN "confirmed"
                            ELSE "awaiting_confirmation"
    BY <1>4 DEF MarkPaid, Save, TypeOK, Row
  <2>2. row[b].status # "hold"
    BY <2>1 DEF OnHold
  <2>3. paid'[b] >= paid[b]
    <3>1. paid'[b] = paid[b] + Positive(row[b].total - paid[b])
      BY <1>4 DEF MarkPaid, TypeOK
    <3> QED BY <1>t, <3>1 DEF Positive
  <2>4. row'[b].status = "awaiting_resolution" => row'[b].attention
    BY <2>1
  <2> QED BY <2>1, <2>2, <2>3, <2>4, HoldWork
<1>5. CASE ResolveAttention(b)
  BY <1>5, HoldResolved
<1>6. CASE Touch(b)
  <2>1. /\ row'[b].status = row[b].status /\ row'[b].expires = row[b].expires
        /\ row'[b].method = row[b].method /\ row'[b].total = row[b].total
        /\ row'[b].attention = row[b].attention /\ row'[b].payment_status = row[b].payment_status
        /\ UNCHANGED <<paid, online>>
    BY <1>6 DEF Touch, Save, TypeOK, Row
  <2> QED BY <2>1, HoldIdle
<1>7. CASE Cancel(b) \/ CustomerCancel(b) \/ Expire(b)
  BY <1>7, HoldCancel DEF Cancel, CustomerCancel, Expire
<1>8. ASSUME NEW cells, NEW m, NEW t, NEW w, ApplyChange(b, cells, t, w, m)
      PROVE  HoldKept(b)
  BY <1>8, HoldChanges
<1>9. CASE PriceDraft(b)
  BY <1>9, HoldIdle DEF PriceDraft
<1>10. CASE PaymentSucceeded(b)
  BY <1>10, HoldReceives
<1>11. CASE PaymentCanceled(b)
  BY <1>11, HoldVoids
<1>12. CASE PaymentUncertain(b)
  BY <1>12, HoldDoubts
<1>13. CASE Lapse(b)
  BY <1>13, HoldLapses
<1>14. CASE SweepWrite(b)
  <2>1. CASE row' = row
    BY <1>14, <2>1, HoldIdle DEF SweepWrite
  <2>2. ASSUME NEW s \in {"postpay", "postpay_warning", "overdue"},
               Save(b, [row[b] EXCEPT !.payment_status = s])
        PROVE  HoldKept(b)
    <3>1. /\ row'[b].status = row[b].status /\ row'[b].expires = row[b].expires
          /\ row'[b].method = row[b].method /\ row'[b].total = row[b].total
          /\ row'[b].attention = row[b].attention /\ row'[b].payment_status = s
          /\ UNCHANGED <<paid, online>>
      BY <1>14, <2>2 DEF SweepWrite, Save, TypeOK, Row
    <3> QED BY <3>1, HoldIdle
  <2> QED BY <1>14, <2>1, <2>2 DEF SweepWrite
<1>15. ASSUME NEW delta, AdjustBooking(b, delta)
       PROVE  HoldKept(b)
  <2>1. /\ row'[b].status = row[b].status /\ row'[b].expires = row[b].expires
        /\ row'[b].method = row[b].method /\ row'[b].total = row[b].total
        /\ row'[b].attention = row[b].attention /\ row'[b].payment_status = row[b].payment_status
        /\ UNCHANGED <<paid, online>>
    BY <1>15 DEF AdjustBooking, Save, TypeOK, Row
  <2> QED BY <2>1, HoldIdle
<1> QED
  BY <1>1, <1>2, <1>3, <1>4, <1>5, <1>6, <1>7, <1>8, <1>9, <1>10, <1>11, <1>12,
     <1>13, <1>14, <1>15 DEF BookingStep, Edit, CommitDraft

TableInv ==
  /\ TypeOK /\ NoDoubleBooking
  /\ \A b \in Booking : Sound(b) /\ OnHold(b)

LEMMA NextHolds ==
  ASSUME TypeOK, TypeOK', NoDoubleBooking, \A b \in Booking : Sound(b) /\ OnHold(b), [Next]_vars
  PROVE  \A c \in Booking : HoldKept(c)
<1> SUFFICES ASSUME NEW c \in Booking PROVE HoldKept(c)
  OBVIOUS
<1>1. ASSUME NEW b \in Booking, BookingStep(b)
      PROVE  HoldKept(c)
  <2>1. CASE c = b
    BY <1>1, <2>1, BookingStepHold
  <2>2. CASE c # b
    <3>1. Same(c)
      BY <1>1, <2>2, BookingStepSound DEF Local
    <3> QED BY <3>1, HoldIdle DEF Same
  <2> QED BY <2>1, <2>2
<1>2. CASE DropDraft \/ SweepRead \/ AccountStep \/ UNCHANGED vars
  <2>1. UNCHANGED <<row, paid, online>>
    BY <1>2 DEF DropDraft, SweepRead, AccountStep, AdjustAccount, Renew, PeriodEnds, SetQuota, vars
  <2> QED BY <2>1, HoldIdle
<1> QED BY <1>1, <1>2 DEF Next

LEMMA HoldsBegin ==
  ASSUME Init, NEW b \in Booking
  PROVE  OnHold(b) /\ Hold(b)!Init
<1>1. online[b] = "none" /\ paid[b] = 0 /\ row[b].status = "absent"
  BY DEF Init, Absent
<1> QED BY <1>1 DEF OnHold, Hold!Init, StageOf, MoneyOfHold

LEMMA TableInvHolds == Spec => []TableInv
<1>1. Init => \A b \in Booking : OnHold(b)
  BY HoldsBegin
<1>2. /\ TypeOK /\ TypeOK' /\ NoDoubleBooking /\ (\A b \in Booking : Sound(b))
      /\ (\A b \in Booking : OnHold(b)) /\ [Next]_vars
      => (\A b \in Booking : OnHold(b))'
  BY NextHolds DEF HoldKept
<1>3. TypeOK /\ NoDoubleBooking /\ (\A b \in Booking : Sound(b)) /\ (\A b \in Booking : OnHold(b))
        => TableInv
  BY DEF TableInv
<1> QED BY <1>1, <1>2, <1>3, TypeCorrect, RoomsAreSafe, AllSound, PTL DEF Spec

LEMMA TableStep ==
  ASSUME TableInv, TableInv', [Next]_vars, NEW b \in Booking
  PROVE  [Hold(b)!Next]_(Hold(b)!hold)
BY NextHolds DEF TableInv, HoldKept

\* Among all bookings, edits, sweeps and corrections, every booking that is paid
\* online is an online hold; and no hold that is paid in time loses its room.
THEOREM HoldsImplemented == Spec => ImplementsHolds
<1> DEFINE Kept == \A b \in Booking : [Hold(b)!Next]_(Hold(b)!hold)
<1>1. Init => \A b \in Booking : Hold(b)!Init
  BY HoldsBegin
<1>2. TableInv /\ TableInv' /\ [Next]_vars => [Kept]_vars
  BY TableStep
<1> QED BY <1>1, <1>2, TableInvHolds, PTL DEF Spec, ImplementsHolds

\* The same of one booking, as the abstract specification states it.
THEOREM EachIsAHold ==
  ASSUME NEW CONSTANT b \in Booking
  PROVE  Spec => Hold(b)!Spec
<1>1. Init => Hold(b)!Init
  BY HoldsBegin
<1>2. TableInv /\ TableInv' /\ [Next]_vars => [Hold(b)!Next]_(Hold(b)!hold)
  BY TableStep
<1> QED BY <1>1, <1>2, TableInvHolds, PTL DEF Spec, Hold!Spec

\* What OnlinePayments assumes of the rooms: a payment that comes while the hold
\* has not lapsed finds them free.
THEOREM HeldRoomsAreFree ==
  Spec => [](\A b \in Booking : row[b].status = "hold" /\ row[b].expires # "passed"
                                  => Free(b, row[b].cells))
<1>1. NoDoubleBooking =>
        \A b \in Booking : row[b].status = "hold" /\ row[b].expires # "passed"
                             => Free(b, row[b].cells)
  BY HeldRoomIsFree
<1> QED BY <1>1, RoomsAreSafe, PTL
=============================================================================
