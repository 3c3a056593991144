CONSTANTS
  b1 = b1
  b2 = b2
  c1 = c1
  c2 = c2
  Booking = {b1, b2}
  Cell = {c1, c2}
  Methods = {"card_online", "cash", "postpay"}
  Amounts = {1}
  Minutes = {0}
  Quotas = {0}
  MaxMinutes = 0
  MaxTotal = 1
SPECIFICATION Spec
VIEW View
SYMMETRY Symmetry
INVARIANTS
  NoDoubleBooking
PROPERTIES
  StrandedMoneyFlagged
  CancelledIsFinal
  ImplementsCalendar
  ImplementsHolds
