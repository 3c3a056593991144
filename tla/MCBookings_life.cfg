CONSTANTS
  b1 = b1
  b2 = b2
  c1 = c1
  c2 = c2
  Booking = {b1}
  Cell = {c1}
  Methods = {"card_online", "cash", "invoice", "postpay", "balance"}
  Amounts = {0, 1}
  Minutes = {0, 1}
  Quotas = {0, 1}
  MaxMinutes = 1
  MaxTotal = 2
SPECIFICATION Spec
VIEW View
INVARIANTS
  HoursMatchLedger
  HoursNeverOverdrawn
  PaidMeansCovered
  ConfirmedIsPaid
PROPERTIES
  ExtensionKeepsCharges
