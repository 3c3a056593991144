--------------------------- MODULE BookingsProofs ---------------------------
(***************************************************************************)
(* Proofs about Bookings, for any sets of bookings and cells, any amounts  *)
(* and hours, and without bounds on how often anything happens.            *)
(***************************************************************************)
EXTENDS Bookings, TLAPS

\* A saved row is a row.
LEMMA SaveType ==
  ASSUME TypeOK, NEW b \in Booking, NEW r \in Row, Save(b, r)
  PROVE  row' \in [Booking -> Row]
<1>1. [r EXCEPT !.revision = @ + 1] \in Row
  BY DEF Row
<1> QED BY <1>1 DEF Save, TypeOK

\* Renewal and a change of quota leave an account with a natural balance.
LEMMA EnsureType ==
  ASSUME TypeOK
  PROVE  Ensure \in Account /\ Ensure.balance \in Nat /\ Ensure.spent \in Int
<1> USE DEF TypeOK, Account
<1>1. CASE account.due
  BY <1>1 DEF Ensure
<1>2. CASE ~account.due /\ account.quota # quota
  <2>1. Positive(quota - Positive(account.spent)) \in Nat
    BY DEF Positive
  <2> QED BY <1>2, <2>1 DEF Ensure
<1>3. CASE ~account.due /\ account.quota = quota
  BY <1>3 DEF Ensure
<1> QED BY <1>1, <1>2, <1>3

LEMMA ChangeType ==
  ASSUME TypeOK, NEW b \in Booking, NEW delta \in Int, ChangeHours(b, delta)
  PROVE  account' \in Account /\ net' \in [Booking -> Int]
<1>1. Ensure \in Account /\ Ensure.balance \in Nat /\ Ensure.spent \in Int
  BY EnsureType
<1>2. Ensure.balance + delta \in Nat /\ Ensure.spent - delta \in Int
  BY <1>1 DEF ChangeHours
<1>3. account' = [Ensure EXCEPT !.balance = Ensure.balance + delta,
                                !.spent = Ensure.spent - delta]
  BY DEF ChangeHours
<1>4. account' \in Account
  BY <1>1, <1>2, <1>3 DEF Account
<1>5. net' \in [Booking -> Int]
  BY DEF ChangeHours, TypeOK
<1> QED BY <1>4, <1>5

LEMMA MoveType ==
  ASSUME TypeOK, NEW b \in Booking, NEW delta \in Int, MoveHours(b, delta)
  PROVE  account' \in Account /\ net' \in [Booking -> Int]
<1>1. CASE delta = 0
  BY <1>1 DEF MoveHours, TypeOK
<1>2. CASE delta # 0
  BY <1>2, ChangeType DEF MoveHours
<1> QED BY <1>1, <1>2

LEMMA RefundableType ==
  ASSUME TypeOK, NEW b \in Booking
  PROVE  Refundable(b) \in Nat
BY DEF TypeOK, Refundable, Positive

LEMMA CancelType ==
  ASSUME TypeOK, NEW b \in Booking, CancelInTransaction(b)
  PROVE  row' \in [Booking -> Row] /\ account' \in Account /\ net' \in [Booking -> Int]
<1>1. account' \in Account /\ net' \in [Booking -> Int]
  <2>1. CASE row[b].owner
    BY <2>1, RefundableType, MoveType DEF CancelInTransaction
  <2>2. CASE ~row[b].owner
    BY <2>2 DEF CancelInTransaction, TypeOK
  <2> QED BY <2>1, <2>2
<1> DEFINE r == [row[b] EXCEPT !.status = "cancelled", !.expires = "none",
                               !.hours = 0, !.attention = paid[b] > 0]
<1>2. r \in Row
  <2>1. "cancelled" \in Status /\ "none" \in Expiry /\ 0 \in Nat
    BY DEF Status, Expiry
  <2>2. row[b] \in Row /\ (paid[b] > 0) \in BOOLEAN
    BY DEF TypeOK
  <2> QED BY <2>1, <2>2 DEF Row
<1>3. Save(b, r)
  BY DEF CancelInTransaction
<1> QED BY <1>1, <1>2, <1>3, SaveType

\* The labels the handlers assign are labels of their fields.
LEMMA Labels ==
  /\ {"absent", "hold", "guest_request", "awaiting_payment", "awaiting_confirmation",
      "confirmed", "cancelled", "blocked", "awaiting_resolution"} \subseteq Status
  /\ {"unpaid", "paid", "postpay", "postpay_warning", "overdue"} \subseteq PaymentStatus
  /\ {"none", "ahead", "passed"} \subseteq Expiry
  /\ Method \subseteq RowMethod /\ "" \in RowMethod
  /\ {"cash", "invoice", "card_online"} \subseteq Method
BY DEF Status, PaymentStatus, Expiry, RowMethod, Method

LEMMA AbsentType == Absent \in Row
BY Labels DEF Absent, Row

LEMMA InitialPaymentType ==
  ASSUME NEW method \in Method, NEW total \in Nat, NEW owner \in BOOLEAN
  PROVE  LET p == InitialPayment(method, total, owner)
         IN  /\ p.status \in Status /\ p.payment_status \in PaymentStatus
             /\ p.expires \in Expiry /\ p.method \in RowMethod
<1>1. CASE ~owner
  BY <1>1, Labels DEF InitialPayment
<1>2. CASE owner /\ total = 0
  BY <1>2, Labels DEF InitialPayment
<1>3. CASE owner /\ total # 0 /\ method = "card_online"
  BY <1>3, Labels DEF InitialPayment
<1>4. CASE owner /\ total # 0 /\ method # "card_online"
  BY <1>4, Labels DEF InitialPayment
<1> QED BY <1>1, <1>2, <1>3, <1>4

LEMMA CreateType ==
  ASSUME TypeOK, NEW b \in Booking, NEW cells \in CellSets, NEW m \in Methods,
         NEW t \in Amounts, NEW w \in Minutes, NEW o \in BOOLEAN,
         Create(b, cells, m, t, w, o)
  PROVE  TypeOK'
<1> DEFINE p == InitialPayment(m, t, o)
<1>1. m \in Method /\ t \in Nat /\ w \in Nat /\ -w \in Int /\ cells \in SUBSET Cell
  BY InputsAssumption DEF CellSets
<1>2. /\ p.status \in Status /\ p.payment_status \in PaymentStatus
      /\ p.expires \in Expiry /\ p.method \in RowMethod
  BY <1>1, InitialPaymentType
<1>3. account' \in Account /\ net' \in [Booking -> Int]
  <2>1. CASE p.status = "hold" /\ w > 0
    BY <2>1, EnsureType DEF Create, TypeOK
  <2>2. CASE ~(p.status = "hold" /\ w > 0)
    BY <1>1, <2>2, MoveType DEF Create
  <2> QED BY <2>1, <2>2
<1> DEFINE r == [status |-> p.status, cells |-> cells, expires |-> p.expires,
                 total |-> t, writeoff |-> w, payment_status |-> p.payment_status,
                 method |-> p.method, owner |-> o,
                 hours |-> IF p.status = "hold" THEN 0 ELSE w,
                 attention |-> FALSE, revision |-> 1]
<1>4. r \in Row
  <2>1. (IF p.status = "hold" THEN 0 ELSE w) \in Nat
    BY <1>1
  <2> QED BY <1>1, <1>2, <2>1 DEF Row
<1>5. row' \in [Booking -> Row]
  BY <1>4 DEF Create, TypeOK
<1>6. online' \in [Booking -> {"none", "open", "settled"}]
  BY DEF Create, TypeOK
<1> QED BY <1>3, <1>5, <1>6 DEF Create, TypeOK

LEMMA ApplyChangeType ==
  ASSUME TypeOK, NEW b \in Booking, NEW cells \in CellSets, NEW t \in Nat,
         NEW w \in Nat, NEW m \in Methods, ApplyChange(b, cells, t, w, m)
  PROVE  row' \in [Booking -> Row] /\ account' \in Account /\ net' \in [Booking -> Int]
<1>1. m \in RowMethod /\ cells \in SUBSET Cell
  BY InputsAssumption, Labels DEF CellSets
<1>2. account' \in Account /\ net' \in [Booking -> Int]
  <2>1. -(w - Refundable(b)) \in Int
    BY RefundableType
  <2> QED BY <2>1, MoveType DEF ApplyChange
<1> DEFINE
  due == Due(b, t)
  s == IF due THEN "awaiting_payment"
       ELSE IF row[b].status = "awaiting_resolution" THEN "awaiting_confirmation"
       ELSE row[b].status
  ps == IF ~due THEN "paid" ELSE IF m = "postpay" THEN "postpay" ELSE "unpaid"
  r == [row[b] EXCEPT !.cells = cells, !.total = t, !.writeoff = w, !.hours = w,
                      !.method = m, !.status = s, !.payment_status = ps,
                      !.attention = paid[b] > t]
<1>3. row[b] \in Row /\ row[b].status \in Status
  BY DEF TypeOK, Row
<1>4. s \in Status /\ ps \in PaymentStatus /\ (paid[b] > t) \in BOOLEAN
  <2>1. s \in Status
    <3> HIDE DEF due
    <3> QED BY <1>3, Labels
  <2>2. ps \in PaymentStatus
    <3> HIDE DEF due
    <3> QED BY Labels
  <2> QED BY <2>1, <2>2
<1>5. r \in Row
  <2> HIDE DEF s, ps
  <2> QED BY <1>1, <1>3, <1>4 DEF Row
<1>6. Save(b, r)
  BY DEF ApplyChange
<1> QED BY <1>2, <1>5, <1>6, SaveType

LEMMA PaymentSucceededType ==
  ASSUME TypeOK, NEW b \in Booking, PaymentSucceeded(b)
  PROVE  TypeOK'
<1> DEFINE
  conflict == row[b].status = "cancelled" \/ ~Free(b, row[b].cells)
  received == paid[b] + row[b].total
  remaining == Positive(row[b].total - received)
  required == IF ~conflict /\ remaining = 0
                THEN Positive(row[b].writeoff - Refundable(b)) ELSE 0
  hoursProblem == Ensure.balance < required
  debit == IF hoursProblem THEN 0 ELSE required
  s == StatusAfterPayment(b, conflict, remaining)
  ps == IF remaining > 0 THEN "unpaid" ELSE "paid"
  h == IF debit > 0 THEN row[b].writeoff ELSE row[b].hours
  a == conflict \/ (required > 0 /\ hoursProblem)
  r == [row[b] EXCEPT !.payment_status = ps, !.expires = "none", !.hours = h,
                      !.status = s, !.attention = a]
<1>1. row[b] \in Row /\ row[b].total \in Nat /\ row[b].writeoff \in Nat
      /\ row[b].hours \in Nat /\ paid[b] \in Nat /\ net[b] \in Int
  BY DEF TypeOK, Row
<1>2. received \in Nat /\ remaining \in Nat
  BY <1>1 DEF Positive
<1>3. required \in Nat /\ debit \in Nat
  BY <1>1, RefundableType DEF Positive
<1>4. Ensure \in Account /\ Ensure.balance \in Nat /\ Ensure.spent \in Int
  BY EnsureType
<1>5. Ensure.balance - debit \in Nat
  <2> HIDE DEF required
  <2> QED BY <1>3, <1>4
<1>6. r \in Row
  <2>1. s \in Status /\ ps \in PaymentStatus /\ h \in Nat /\ a \in BOOLEAN
    BY <1>1, Labels DEF StatusAfterPayment
  <2> HIDE DEF s, ps, h, a
  <2> QED BY <1>1, <2>1, Labels DEF Row
<1>7. row' \in [Booking -> Row]
  <2>1. Save(b, r)
    BY DEF PaymentSucceeded
  <2> QED BY <1>6, <2>1, SaveType
<1>8. paid' \in [Booking -> Nat] /\ online' \in [Booking -> {"none", "open", "settled"}]
  BY <1>2 DEF PaymentSucceeded, TypeOK
<1>9. account' \in Account /\ net' \in [Booking -> Int]
  <2>1. account' = IF required = 0 THEN account
                   ELSE [Ensure EXCEPT !.balance = Ensure.balance - debit,
                                       !.spent = Ensure.spent + debit]
    BY DEF PaymentSucceeded
  <2>2. net' = [net EXCEPT ![b] = @ + debit]
    BY DEF PaymentSucceeded
  <2> HIDE DEF required, debit
  <2>3. account' \in Account
    <3>1. CASE required = 0
      BY <2>1, <3>1 DEF TypeOK
    <3>2. CASE required # 0
      <4>1. Ensure.spent + debit \in Int
        BY <1>3, <1>4
      <4> QED BY <1>4, <1>5, <2>1, <3>2, <4>1 DEF Account
    <3> QED BY <3>1, <3>2
  <2>4. net' \in [Booking -> Int]
    BY <1>3, <2>2 DEF TypeOK
  <2> QED BY <2>3, <2>4
<1> QED BY <1>7, <1>8, <1>9 DEF PaymentSucceeded, TypeOK

LEMMA AdjustBookingType ==
  ASSUME TypeOK, NEW b \in Booking, NEW delta \in Int, AdjustBooking(b, delta)
  PROVE  TypeOK'
<1>1. account' \in Account /\ net' \in [Booking -> Int]
  BY ChangeType DEF AdjustBooking
<1> DEFINE r == [row[b] EXCEPT !.hours = Positive(net'[b])]
<1>2. Positive(net'[b]) \in Nat
  BY <1>1 DEF Positive
<1>3. r \in Row
  BY <1>2 DEF TypeOK, Row
<1>4. row' \in [Booking -> Row]
  BY <1>3, SaveType DEF AdjustBooking
<1> QED BY <1>1, <1>4 DEF AdjustBooking, TypeOK

LEMMA InitType == Init => TypeOK
BY AbsentType, InputsAssumption DEF Init, TypeOK, Account, NoDraft

LEMMA BookingStepType ==
  ASSUME TypeOK, NEW b \in Booking, BookingStep(b)
  PROVE  TypeOK'
<1>a. row[b] \in Row
  BY DEF TypeOK
<1>1. ASSUME NEW cells \in CellSets, NEW m \in Methods, NEW t \in Amounts,
             NEW w \in Minutes, NEW o \in BOOLEAN, Create(b, cells, m, t, w, o)
      PROVE  TypeOK'
  BY <1>1, CreateType
<1>2. ASSUME NEW cells \in CellSets, NEW t \in Amounts, Block(b, cells, t)
      PROVE  TypeOK'
  <2>0. t \in Nat
    BY InputsAssumption
  <2>1. [Absent EXCEPT !.status = "blocked", !.cells = cells, !.total = t,
                       !.revision = 1] \in Row
    BY <2>0, AbsentType, Labels DEF Row, CellSets
  <2> QED BY <1>2, <2>1 DEF Block, TypeOK
<1>3. CASE Confirm(b)
  <2>1. [row[b] EXCEPT !.status = "confirmed", !.expires = "none", !.attention = FALSE] \in Row
    BY <1>a, Labels DEF Row
  <2> QED BY <1>3, <2>1, SaveType DEF Confirm, TypeOK
<1>4. CASE MarkPaid(b)
  <2> DEFINE conflict == ~Free(b, row[b].cells)
             s == IF conflict THEN "awaiting_resolution"
                  ELSE IF row[b].status = "confirmed" THEN "confirmed"
                  ELSE "awaiting_confirmation"
             r == [row[b] EXCEPT !.payment_status = "paid", !.expires = "none",
                                 !.attention = conflict, !.status = s]
  <2>1. s \in Status /\ conflict \in BOOLEAN
    BY Labels
  <2>2. r \in Row
    <3> HIDE DEF s, conflict
    <3> QED BY <1>a, <2>1, Labels DEF Row
  <2>3. Save(b, r)
    BY <1>4 DEF MarkPaid
  <2>4. row' \in [Booking -> Row]
    BY <2>2, <2>3, SaveType
  <2>5. paid' \in [Booking -> Nat]
    <3>1. paid[b] + Positive(row[b].total - paid[b]) \in Nat
      BY <1>a DEF TypeOK, Row, Positive
    <3> QED BY <1>4, <3>1 DEF MarkPaid, TypeOK
  <2> QED BY <1>4, <2>4, <2>5 DEF MarkPaid, TypeOK
<1>5. CASE ResolveAttention(b)
  <2>1. [row[b] EXCEPT !.attention = FALSE] \in Row
    BY <1>a DEF Row
  <2> QED BY <1>5, <2>1, SaveType DEF ResolveAttention, TypeOK
<1>6. CASE Touch(b)
  BY <1>a, <1>6, SaveType DEF Touch, TypeOK
<1>7. CASE Cancel(b)
  BY <1>7, CancelType DEF Cancel, TypeOK
<1>8. CASE CustomerCancel(b)
  BY <1>8, CancelType DEF CustomerCancel, TypeOK
<1>9. ASSUME NEW cells \in CellSets, NEW m \in Methods, NEW t \in Amounts,
             NEW w \in Minutes, Edit(b, cells, t, w, m)
      PROVE  TypeOK'
  <2>1. t \in Nat /\ w \in Nat
    BY InputsAssumption
  <2> QED BY <1>9, <2>1, ApplyChangeType DEF Edit, ApplyChange, TypeOK
<1>10. CASE PriceDraft(b)
  BY <1>a, <1>10 DEF PriceDraft, TypeOK, Draft, Row
<1>11. ASSUME NEW cells \in CellSets, NEW m \in Methods, NEW t \in Amounts,
              NEW h \in Int, CommitDraft(b, cells, t, h, m)
       PROVE  TypeOK'
  <2>1. draft.total + t \in Nat /\ draft.hours + h \in Nat
    BY <1>11, InputsAssumption DEF CommitDraft, CurrentDraft, TypeOK, Draft
  <2>2. ApplyChange(b, cells, draft.total + t, draft.hours + h, m)
    BY <1>11 DEF CommitDraft
  <2> QED BY <1>11, <2>1, <2>2, ApplyChangeType DEF CommitDraft, ApplyChange, TypeOK
<1>12. CASE PaymentSucceeded(b)
  BY <1>12, PaymentSucceededType
<1>13. CASE PaymentCanceled(b)
  <2>1. row' \in [Booking -> Row] /\ account' \in Account /\ net' \in [Booking -> Int]
    BY <1>13, CancelType DEF PaymentCanceled, TypeOK
  <2> QED BY <1>13, <2>1 DEF PaymentCanceled, TypeOK
<1>14. CASE Lapse(b)
  <2>1. [row[b] EXCEPT !.expires = "passed"] \in Row
    BY <1>a, Labels DEF Row
  <2> QED BY <1>14, <2>1 DEF Lapse, TypeOK
<1>15. CASE Expire(b)
  BY <1>15, CancelType DEF Expire, TypeOK
<1>16. CASE SweepWrite(b)
  <2>1. ASSUME NEW s \in {"postpay", "postpay_warning", "overdue"}
        PROVE  [row[b] EXCEPT !.payment_status = s] \in Row
    <3>1. s \in PaymentStatus
      BY Labels
    <3> QED BY <1>a, <3>1 DEF Row
  <2>2. row' \in [Booking -> Row]
    BY <1>16, <2>1, SaveType DEF SweepWrite, TypeOK
  <2> QED BY <1>16, <2>2 DEF SweepWrite, TypeOK
<1>17. ASSUME NEW w \in Minutes, AdjustBooking(b, w) \/ AdjustBooking(b, -w)
       PROVE  TypeOK'
  <2>1. w \in Int /\ -w \in Int
    BY InputsAssumption
  <2> QED BY <1>17, <2>1, AdjustBookingType
<1>19. CASE PaymentUncertain(b)
  <2>1. [row[b] EXCEPT !.attention = TRUE] \in Row
    BY <1>a DEF Row
  <2> QED BY <1>19, <2>1, SaveType DEF PaymentUncertain, TypeOK
<1>18. \A w \in Minutes : w \in Int /\ -w \in Int
  BY InputsAssumption
<1> QED
  BY <1>1, <1>2, <1>3, <1>4, <1>5, <1>6, <1>7, <1>8, <1>9, <1>10, <1>11, <1>12,
     <1>13, <1>14, <1>15, <1>16, <1>17, <1>18, <1>19 DEF BookingStep

LEMMA OtherStepType ==
  ASSUME TypeOK, DropDraft \/ SweepRead \/ AccountStep \/ UNCHANGED vars
  PROVE  TypeOK'
<1>1. CASE DropDraft
  BY <1>1 DEF DropDraft, TypeOK
<1>2. CASE SweepRead
  BY <1>2 DEF SweepRead, TypeOK
<1>3. ASSUME NEW delta \in Int, AdjustAccount(delta)
      PROVE  TypeOK'
  <2>1. Ensure.balance + delta \in Nat
    BY <1>3, InputsAssumption, EnsureType DEF AdjustAccount
  <2>2. account' = [Ensure EXCEPT !.balance = Ensure.balance + delta]
    BY <1>3 DEF AdjustAccount
  <2>3. account' \in Account
    BY <2>1, <2>2, EnsureType DEF Account
  <2> QED BY <1>3, <2>3 DEF AdjustAccount, TypeOK
<1>4. CASE Renew
  BY <1>4, EnsureType DEF Renew, TypeOK
<1>5. CASE PeriodEnds
  BY <1>5 DEF PeriodEnds, TypeOK, Account
<1>6. ASSUME NEW q \in Quotas, SetQuota(q)
      PROVE  TypeOK'
  BY <1>6, InputsAssumption DEF SetQuota, TypeOK
<1>7. CASE UNCHANGED vars
  BY <1>7 DEF vars, TypeOK
<1>8. \A w \in Minutes : w \in Int /\ -w \in Int
  BY InputsAssumption
<1> QED BY <1>1, <1>2, <1>3, <1>4, <1>5, <1>6, <1>7, <1>8 DEF AccountStep

LEMMA NextType == TypeOK /\ [Next]_vars => TypeOK'
BY BookingStepType, OtherStepType DEF Next

\* The rows, the ledger sums, the account and the working sets keep their types.
THEOREM TypeCorrect == Spec => []TypeOK
BY InitType, NextType, PTL DEF Spec

-----------------------------------------------------------------------------
(***************************************************************************)
(* Rooms.  Whatever a step does to the table, it writes at most one row,   *)
(* and if that row blocks availability afterwards then either it did so    *)
(* before with the same cells, or its cells were checked to be free.       *)
(***************************************************************************)

CalendarStep(b) ==
  /\ \A c \in Booking \ {b} : row'[c] = row[c]
  /\ Live(b)' => \/ Live(b) /\ row'[b].cells = row[b].cells
                 \/ Free(b, row'[b].cells)

LEMMA SaveWritesOneRow ==
  ASSUME TypeOK, NEW b \in Booking, NEW r \in Row, Save(b, r)
  PROVE  /\ \A c \in Booking \ {b} : row'[c] = row[c]
         /\ row'[b] = [r EXCEPT !.revision = @ + 1]
BY DEF Save, TypeOK

LEMMA CancelIsCalendarStep ==
  ASSUME TypeOK, NEW b \in Booking, CancelInTransaction(b)
  PROVE  CalendarStep(b)
<1>1. \A c \in Booking \ {b} : row'[c] = row[c]
  BY DEF CancelInTransaction, Save, TypeOK
<1>2. row'[b].status = "cancelled"
  BY DEF CancelInTransaction, Save, TypeOK, Row
<1> QED BY <1>1, <1>2 DEF CalendarStep, Live, BlocksAvailability

LEMMA ApplyChangeIsCalendarStep ==
  ASSUME TypeOK, NEW b \in Booking, NEW cells, NEW t, NEW w, NEW m,
         ApplyChange(b, cells, t, w, m)
  PROVE  CalendarStep(b)
<1>1. \A c \in Booking \ {b} : row'[c] = row[c]
  BY DEF ApplyChange, Save, TypeOK
<1>2. row'[b].cells = cells
  BY DEF ApplyChange, Save, TypeOK, Row
<1>3. Free(b, cells)
  BY DEF ApplyChange
<1> QED BY <1>1, <1>2, <1>3 DEF CalendarStep

LEMMA PaymentSucceededIsCalendarStep ==
  ASSUME TypeOK, NEW b \in Booking, PaymentSucceeded(b)
  PROVE  CalendarStep(b)
<1> DEFINE conflict == row[b].status = "cancelled" \/ ~Free(b, row[b].cells)
           remaining == Positive(row[b].total - (paid[b] + row[b].total))
<1>1. \A c \in Booking \ {b} : row'[c] = row[c]
  BY DEF PaymentSucceeded, Save, TypeOK
<1>2. row'[b].cells = row[b].cells /\ row'[b].status = StatusAfterPayment(b, conflict, remaining)
  BY DEF PaymentSucceeded, Save, TypeOK, Row
<1>3. CASE conflict
  <2>1. row'[b].status \in {"cancelled", "awaiting_resolution"}
    <3> HIDE DEF remaining
    <3> QED BY <1>2, <1>3 DEF StatusAfterPayment
  <2> QED BY <1>1, <2>1 DEF CalendarStep, Live, BlocksAvailability
<1>4. CASE ~conflict
  BY <1>1, <1>2, <1>4 DEF CalendarStep
<1> QED BY <1>3, <1>4

LEMMA BookingStepIsCalendarStep ==
  ASSUME TypeOK, NEW b \in Booking, BookingStep(b)
  PROVE  CalendarStep(b)
<1> USE DEF CalendarStep
<1>1. ASSUME NEW cells \in CellSets, NEW m \in Methods, NEW t \in Amounts,
             NEW w \in Minutes, NEW o \in BOOLEAN, Create(b, cells, m, t, w, o)
      PROVE  CalendarStep(b)
  <2>1. \A c \in Booking \ {b} : row'[c] = row[c]
    BY <1>1 DEF Create, TypeOK
  <2>2. /\ row'[b].cells = cells
        /\ row'[b].status = InitialPayment(m, t, o).status
    BY <1>1 DEF Create, TypeOK
  <2>3. row'[b].status # "guest_request" => Free(b, cells)
    BY <1>1, <2>2 DEF Create
  <2> QED BY <2>1, <2>2, <2>3 DEF Live, BlocksAvailability
<1>2. ASSUME NEW cells \in CellSets, NEW t \in Amounts, Block(b, cells, t)
      PROVE  CalendarStep(b)
  <2>1. \A c \in Booking \ {b} : row'[c] = row[c]
    BY <1>2 DEF Block, TypeOK
  <2>2. row'[b].cells = cells
    BY <1>2 DEF Block, TypeOK, Absent
  <2> QED BY <1>2, <2>1, <2>2 DEF Block
<1>3. CASE Confirm(b)
  <2>1. \A c \in Booking \ {b} : row'[c] = row[c]
    BY <1>3 DEF Confirm, Save, TypeOK
  <2>2. row'[b].cells = row[b].cells
    BY <1>3 DEF Confirm, Save, TypeOK, Row
  <2> QED BY <1>3, <2>1, <2>2 DEF Confirm
<1>4. CASE MarkPaid(b)
  <2>1. \A c \in Booking \ {b} : row'[c] = row[c]
    BY <1>4 DEF MarkPaid, Save, TypeOK
  <2>2. /\ row'[b].cells = row[b].cells
        /\ ~Free(b, row[b].cells) => row'[b].status = "awaiting_resolution"
    BY <1>4 DEF MarkPaid, Save, TypeOK, Row
  <2> QED BY <2>1, <2>2 DEF Live, BlocksAvailability
<1>5. CASE ResolveAttention(b)
  <2>1. \A c \in Booking \ {b} : row'[c] = row[c]
    BY <1>5 DEF ResolveAttention, Save, TypeOK
  <2>2. /\ row'[b].cells = row[b].cells /\ row'[b].status = row[b].status
        /\ row'[b].expires = row[b].expires
    BY <1>5 DEF ResolveAttention, Save, TypeOK, Row
  <2> QED BY <2>1, <2>2 DEF Live, BlocksAvailability
<1>6. CASE Touch(b)
  <2>1. \A c \in Booking \ {b} : row'[c] = row[c]
    BY <1>6 DEF Touch, Save, TypeOK
  <2>2. /\ row'[b].cells = row[b].cells /\ row'[b].status = row[b].status
        /\ row'[b].expires = row[b].expires
    BY <1>6 DEF Touch, Save, TypeOK, Row
  <2> QED BY <2>1, <2>2 DEF Live, BlocksAvailability
<1>7. CASE Cancel(b) \/ CustomerCancel(b) \/ Expire(b)
  BY <1>7, CancelIsCalendarStep DEF Cancel, CustomerCancel, Expire
<1>8. ASSUME NEW cells \in CellSets, NEW m \in Methods, NEW t \in Amounts,
             NEW w \in Minutes, Edit(b, cells, t, w, m)
      PROVE  CalendarStep(b)
  BY <1>8, ApplyChangeIsCalendarStep DEF Edit
<1>9. CASE PriceDraft(b)
  BY <1>9 DEF PriceDraft, Live, BlocksAvailability
<1>10. ASSUME NEW cells, NEW m, NEW t, NEW h, CommitDraft(b, cells, t, h, m)
       PROVE  CalendarStep(b)
  BY <1>10, ApplyChangeIsCalendarStep DEF CommitDraft
<1>11. CASE PaymentSucceeded(b)
  BY <1>11, PaymentSucceededIsCalendarStep
<1>12. CASE PaymentCanceled(b)
  <2>1. CASE row[b].status = "hold"
    BY <1>12, <2>1, CancelIsCalendarStep DEF PaymentCanceled
  <2>2. CASE row[b].status # "hold"
    BY <1>12, <2>2 DEF PaymentCanceled, Live, BlocksAvailability
  <2> QED BY <2>1, <2>2
<1>13. CASE Lapse(b)
  <2>1. \A c \in Booking \ {b} : row'[c] = row[c]
    BY <1>13 DEF Lapse, TypeOK
  <2>2. row'[b].expires = "passed"
    BY <1>13 DEF Lapse, TypeOK, Row
  <2> QED BY <2>1, <2>2 DEF Live, BlocksAvailability
<1>14. CASE SweepWrite(b)
  <2>1. \A c \in Booking \ {b} : row'[c] = row[c]
    BY <1>14 DEF SweepWrite, Save, TypeOK
  <2>2. /\ row'[b].cells = row[b].cells /\ row'[b].status = row[b].status
        /\ row'[b].expires = row[b].expires
    BY <1>14 DEF SweepWrite, Save, TypeOK, Row
  <2> QED BY <2>1, <2>2 DEF Live, BlocksAvailability
<1>15. ASSUME NEW delta, AdjustBooking(b, delta)
       PROVE  CalendarStep(b)
  <2>1. \A c \in Booking \ {b} : row'[c] = row[c]
    BY <1>15 DEF AdjustBooking, Save, TypeOK
  <2>2. /\ row'[b].cells = row[b].cells /\ row'[b].status = row[b].status
        /\ row'[b].expires = row[b].expires
    BY <1>15 DEF AdjustBooking, Save, TypeOK, Row
  <2> QED BY <2>1, <2>2 DEF Live, BlocksAvailability
<1>16. CASE PaymentUncertain(b)
  <2>1. \A c \in Booking \ {b} : row'[c] = row[c]
    BY <1>16 DEF PaymentUncertain, Save, TypeOK
  <2>2. /\ row'[b].cells = row[b].cells /\ row'[b].status = row[b].status
        /\ row'[b].expires = row[b].expires
    BY <1>16 DEF PaymentUncertain, Save, TypeOK, Row
  <2> QED BY <2>1, <2>2 DEF Live, BlocksAvailability
<1> QED
  BY <1>1, <1>2, <1>3, <1>4, <1>5, <1>6, <1>7, <1>8, <1>9, <1>10, <1>11, <1>12,
     <1>13, <1>14, <1>15, <1>16 DEF BookingStep

LEMMA InitLive ==
  ASSUME Init, NEW b \in Booking
  PROVE  ~Live(b)
<1>1. row[b].status = "absent"
  BY DEF Init, Absent
<1> QED BY <1>1 DEF Live, BlocksAvailability

LEMMA NextIsCalendarStep ==
  ASSUME TypeOK, [Next]_vars
  PROVE  (\E b \in Booking : CalendarStep(b)) \/ row' = row
<1>1. CASE \E b \in Booking : BookingStep(b)
  BY <1>1, BookingStepIsCalendarStep
<1>2. CASE DropDraft \/ SweepRead \/ AccountStep \/ UNCHANGED vars
  BY <1>2 DEF DropDraft, SweepRead, AccountStep, AdjustAccount, Renew, PeriodEnds,
              SetQuota, vars
<1> QED BY <1>1, <1>2 DEF Next

LEMMA CalendarStepSafe ==
  ASSUME NoDoubleBooking, NEW b \in Booking, CalendarStep(b)
  PROVE  NoDoubleBooking'
<1> SUFFICES ASSUME NEW c \in Booking, NEW d \in Booking, c # d, Live(c)', Live(d)'
             PROVE  row'[c].cells \cap row'[d].cells = {}
  BY DEF NoDoubleBooking
<1>0. \A e \in Booking \ {b} : row'[e] = row[e] /\ (Live(e)' => Live(e))
  BY DEF CalendarStep, Live
<1>1. CASE c # b /\ d # b
  BY <1>0, <1>1 DEF NoDoubleBooking
<1>2. ASSUME NEW e \in Booking, e # b, Live(e)', Live(b)'
      PROVE  row'[e].cells \cap row'[b].cells = {}
  <2>1. row'[e] = row[e] /\ Live(e)
    BY <1>0, <1>2
  <2>2. CASE Live(b) /\ row'[b].cells = row[b].cells
    BY <1>2, <2>1, <2>2 DEF NoDoubleBooking
  <2>3. CASE Free(b, row'[b].cells)
    BY <1>2, <2>1, <2>3 DEF Free, Live
  <2> QED BY <1>2, <2>2, <2>3 DEF CalendarStep
<1>3. CASE c = b
  BY <1>2, <1>3
<1>4. CASE d = b
  BY <1>2, <1>4
<1> QED BY <1>1, <1>3, <1>4

\* No room-time cell belongs to two bookings that block availability.
THEOREM RoomsAreSafe == Spec => []NoDoubleBooking
<1>1. Init => NoDoubleBooking
  BY InitLive DEF NoDoubleBooking
<1>2. TypeOK /\ NoDoubleBooking /\ [Next]_vars => NoDoubleBooking'
  <2> SUFFICES ASSUME TypeOK, NoDoubleBooking, [Next]_vars
               PROVE  NoDoubleBooking'
    OBVIOUS
  <2>1. CASE row' = row
    BY <2>1 DEF NoDoubleBooking, Live
  <2>2. CASE \E b \in Booking : CalendarStep(b)
    BY <2>2, CalendarStepSafe
  <2> QED BY <2>1, <2>2, NextIsCalendarStep
<1> QED BY <1>1, <1>2, TypeCorrect, PTL DEF Spec

\* The booking table implements the room calendar: each step reserves free cells
\* for one booking, releases one booking's cells, or leaves the calendar alone.
THEOREM CalendarImplemented == Spec => ImplementsCalendar
<1> DEFINE taken == [b \in Booking |-> IF Live(b) THEN row[b].cells ELSE {}]
<1>1. Init => Calendar!Init
  BY InitLive DEF Calendar!Init
<1>2. TypeOK /\ TypeOK' /\ [Next]_vars => [Calendar!Next]_taken
  <2> SUFFICES ASSUME TypeOK, TypeOK', [Next]_vars
               PROVE  Calendar!Next \/ taken' = taken
    OBVIOUS
  <2>1. CASE row' = row
    BY <2>1 DEF Live
  <2>2. ASSUME NEW b \in Booking, CalendarStep(b)
        PROVE  Calendar!Next \/ taken' = taken
    <3>1. \A c \in Booking \ {b} : taken'[c] = taken[c]
      BY <2>2 DEF CalendarStep, Live
    <3>2. taken' = [taken EXCEPT ![b] = taken'[b]]
      BY <3>1
    <3>3. CASE ~Live(b)'
      <4>1. taken'[b] = {}
        BY <3>3
      <4>2. Calendar!Release(b)
        BY <3>2, <4>1 DEF Calendar!Release
      <4> QED BY <4>2 DEF Calendar!Next
    <3>4. CASE Live(b)' /\ Live(b) /\ row'[b].cells = row[b].cells
      BY <3>2, <3>4
    <3>5. CASE Live(b)' /\ Free(b, row'[b].cells)
      <4>1. PICK cells \in SUBSET Cell : taken'[b] = cells /\ row'[b].cells = cells
        BY <3>5 DEF TypeOK, Row
      <4>2. \A c \in Booking \ {b} : taken[c] \cap cells = {}
        BY <3>5, <4>1 DEF Free, Live
      <4>3. Calendar!Occupy(b, cells)
        BY <3>2, <4>1, <4>2 DEF Calendar!Occupy, Calendar!Free
      <4>4. \E s \in SUBSET Cell : Calendar!Occupy(b, s)
        BY <4>3, Zenon
      <4> QED BY <4>4, Zenon DEF Calendar!Next
    <3> QED BY <2>2, <3>3, <3>4, <3>5 DEF CalendarStep
  <2> QED BY <2>1, <2>2, NextIsCalendarStep
<1> QED BY <1>1, <1>2, TypeCorrect, PTL DEF Spec, ImplementsCalendar, Calendar!Spec
=============================================================================
