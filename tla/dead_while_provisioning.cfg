SPECIFICATION Spec
CONSTANTS
  Slots = {s1, s2}
  MaxAttempts = 2
  MaxIterations = 1
  MaxMessages = 1
  MaxCrashes = 0
  MaxStalls = 0
  MaxDbErrors = 0
  StartReady = FALSE
  FreshBoxes = FALSE
CHECK_DEADLOCK FALSE
INVARIANTS DeadTurnIsRecorded
