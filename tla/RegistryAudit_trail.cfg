CONSTANTS
  None = None
  Whole = 2
  Strategy = {alpha, beta}
  Holder = {c1, c2}
  TransitionId <- MCTransitionId
  Header = {h1, h2}
  MaxJsonInteger = 2
  OfferedIds <- MCOfferedIds
  Time <- MCTime
  Controls <- MCControls
  Drafts <- MCDrafts
SYMMETRY Symmetry
SPECIFICATION AuditSpec
INVARIANTS
  TrailReplays
  LegalTrailIsABranch
PROPERTIES
  RecoveryAccepted
  OnlyForksSpoil
