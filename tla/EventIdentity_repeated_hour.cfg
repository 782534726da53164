SPECIFICATION Spec
CONSTANTS
  Forward = 2
  Back = 5
  EventId = {"e1"}
  Payload = {"p", "q"}
  Wall = {1, 2, 3, 4, 5, 6}
INVARIANTS
  RepetitionIsAccepted
