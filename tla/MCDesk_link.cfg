SPECIFICATION Spec
CONSTANTS
  Said <- Same
  Replies <- Words
  ann = ann
  bob = bob
  acme = acme
  None = None
  User = {ann, bob}
  Company = {acme}
  MaxWords = 1
  MaxEvents = 1
INVARIANTS
  LinkReachesDeal
CHECK_DEADLOCK FALSE
