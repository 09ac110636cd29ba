SPECIFICATION Spec
CONSTANTS
  Slots = {s1, s2}
  MaxAttempts = 2
  MaxMessages = 1
  MaxOutput = 1
  Anonymous = {2}
  MaxFaults = 0
  FaultKinds = {}
SYMMETRY Symmetry
INVARIANTS OpenTurnHasJob
CHECK_DEADLOCK FALSE
