SPECIFICATION FairSpec
CONSTANTS
  Symbol = {"SPY", "TLT"}
  SecretName = {"key", "token"}
  VariableName = {"KEY", "TOKEN"}
  Printable = 1000
  TomlValue <- MCTomlValue
  Offered <- MCOffered
INVARIANTS
  FailsClosed
  LoadsThePolicy
  EqualIffSameSnapshot
  OneTextPerValue
PROPERTIES
  ImplementsContract
  CallsEnd
CHECK_DEADLOCK FALSE
