SPECIFICATION FairSpec
CONSTANTS
  Symbol = {"SPY", "TLT"}
  SecretName = {"key", "token"}
  VariableName = {"KEY", "TOKEN"}
  Printable = 1000
  TomlValue <- MCExceptionalValue
  Offered <- MCExceptional
INVARIANTS
  SomePromiseIsKept
CHECK_DEADLOCK FALSE
