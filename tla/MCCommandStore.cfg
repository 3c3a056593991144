CONSTANTS
  Call <- MCCall
  Key <- MCKey
  Request <- MCRequest
  Doc <- MCDoc
  Value <- MCValue
  KeyOf <- MCKeyOf
  RequestOf <- MCRequestOf
  Writes <- MCWrites
  Effect <- MCEffect
  InitDocs <- MCInitDocs
  MaxVersion = 5
SPECIFICATION Spec
PROPERTIES
  WritesOnlyWhenOpen
  ImplementsAtomicCommands
CHECK_DEADLOCK FALSE
