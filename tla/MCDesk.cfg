SPECIFICATION Spec
CONSTANTS
  Said <- Same
  Replies <- Words
  ann = ann
  bob = bob
  acme = acme
  None = None
  User = {ann, bob}
  Company = {acme}
  MaxWords = 2
  MaxEvents = 2
INVARIANTS
  NothingForgotten
  ConversationKept
  LinksAreTrue
PROPERTIES
  OnceAndInOrder
  AllDelivered
  MirrorSettles
  AssignmentArrives
CHECK_DEADLOCK FALSE
