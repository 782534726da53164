CONSTANTS
  EventId = {e1, e2}
  Header = {h1, h2}
  Payload = {p1, p2}
  Foreign <- MCForeign
  MaxFaults = 1
  MaxCrashes = 2
SPECIFICATION FairSpec
INVARIANTS
  IndexAgrees
  AckedIsKept
PROPERTIES
  ReplayIsComplete
  ImplementsLedger
  RecoveryRestores
