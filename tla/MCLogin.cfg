SPECIFICATION Spec
CONSTANTS
  c1 = c1
  c2 = c2
  first = first
  again = again
  more = more
  None = None
  Calls = {c1, c2}
  Keys = {first, again, more}
  First = first
  MaxAttempts = 2
  MaxCodes = 3
  MaxEvents = 3
INVARIANTS
  SentOnce
  GuessesBounded
  OneSessionPerCode
  SessionsEnd
  MirrorsAccount
SYMMETRY Interchangeable
CHECK_DEADLOCK FALSE
