SPECIFICATION Spec
CONSTANTS
  w1 = w1
  w2 = w2
  None = None
  Worker = {w1}
  Methods = {"invoice", "postpay"}
  MaxTotal = 2
  MaxEvents = 2
  MaxFaults = 1
INVARIANTS
  NothingLost
  MailIsAsChosen
PROPERTIES
  PrepayIsEarned
  AmountSettles
  MailLeaves
  MarkSettles
