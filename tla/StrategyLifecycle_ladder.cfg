CONSTANTS
  None = None
  Whole = 2
  Holder = {h1}
  Strategy = {alpha}
  Time <- MCTime
  TransitionId <- MCTransitionId
  OfferedIds <- MCOfferedIds
  Controls <- MCControls
  Drafts <- MCDrafts
SPECIFICATION Spec
INVARIANTS
  TypeOK
  LadderClimbed
  NoPaperWithoutValidation
  ControlsCoverHistory
PROPERTIES
  RetirementAccepted
