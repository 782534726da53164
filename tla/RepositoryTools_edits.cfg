SPECIFICATION ToolsSpec
CONSTANTS
  ExpectedSkill <- MCExpected
  OtherName = {"general"}
  HyphenCase = {"audit", "delivery", "general"}
  CommonFragment <- MCCommon
  RequiredFragment <- MCRequired
  InitialSkills <- MCInitialSkills
  Contents <- FewContents
  MaxEdits = 2
  Release = {1, 2}
  MaxFlaws = 1
  MaxTreeEdits = 2
INVARIANTS
  LastingFlawsAreReported
  ReportIsExact
  PassedMeansValidated
  JobsAgreeWithValidate
PROPERTIES
  FailedChecksKeepDist
CHECK_DEADLOCK FALSE
