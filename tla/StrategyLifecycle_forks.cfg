CONSTANTS
  None = None
  Whole = 2
  Holder = {h1, h2}
  Strategy = {alpha, beta}
  TransitionId = {id1, id2, id3}
  Time <- MCTime
  OfferedIds <- AllIds
  Controls <- ForkControls
  Drafts <- ForkDrafts
SYMMETRY Symmetry
SPECIFICATION Spec
INVARIANTS
  AppendIsIncremental
PROPERTIES
  RetiredIsFinal
  ReplayYieldsPrefix
