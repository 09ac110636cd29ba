SPECIFICATION Spec
CONSTANTS
  Slots = {s1, s2}
  MaxAttempts = 2
  MaxIterations = 2
  MaxMessages = 1
  MaxCrashes = 1
  MaxStalls = 2
  MaxDbErrors = 1
  StartReady = TRUE
  FreshBoxes = FALSE
CHECK_DEADLOCK FALSE
INVARIANTS MemIsPrefix CommandsJournaled ResultsObserved
PROPERTIES WritesOneConversation
SYMMETRY SlotSymmetry
