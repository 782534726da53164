CONSTANTS
  None = None
  Whole = 2
  Strategy = {alpha}
  Holder = {c1}
  TransitionId <- MCTransitionId
  Header = {h1}
  MaxJsonInteger = 2
  OfferedIds <- MCOfferedIds
  Time <- MCTime
  Controls <- MCControls
  Drafts <- MCDrafts
SPECIFICATION AuditSpec
INVARIANTS
  AcceptedIsRenderable
