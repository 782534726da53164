CONSTANTS
  Outside = "<outside>"
  Root = "<root>"
  Identifier <- MCIdentifier
  Name <- MCName
  Rank <- MCRank
  RuleSets <- MCRuleSets
  Trees <- MCTrees
SPECIFICATION FairSpec
INVARIANTS
  CyclesAreReal
  Verdict
  EveryKnotReported
  ValidMeansPermitted
  ReportsAreJustified
  ValidMeansLayered
PROPERTIES
  Termination
CHECK_DEADLOCK FALSE
