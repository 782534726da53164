CONSTANTS
  Outside = "<outside>"
  Root = "<root>"
  Identifier <- MCIdentifier
  Name <- MCName
  Rank <- MCRank
  RuleSets <- MCDynamicRules
  Trees <- MCDynamicTrees
SPECIFICATION FairSpec
INVARIANTS
  NoDynamicImports
CHECK_DEADLOCK FALSE
