SPECIFICATION SchemaSpec
CONSTANTS
  Forward = 2
  Back = 5
  EventId = {"e1"}
  Payload = {"p", "q"}
  Wall = {1, 2, 3, 4, 5, 6}
  Key <- MCKey
  Sensitive = {"token"}
  MinInteger <- MCMinInteger
  MaxInteger = 1
  SchemaName = {"s"}
  Schema <- MCSchema
  Value <- MCValue
  Text <- MCText
  MaxCalls = 2
INVARIANTS
  ConflictsAreRefused
  RefusalsAreConflicts
  SecretsAreRedacted
  OneTextPerContent
PROPERTIES
  CopyIsThePayload
CHECK_DEADLOCK FALSE
