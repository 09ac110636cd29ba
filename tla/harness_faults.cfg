SPECIFICATION FairSpec
CONSTANTS
  Slots = {s1, s2}
  MaxAttempts = 2
  MaxMessages = 1
  MaxOutput = 1
  Anonymous = {2}
  MaxFaults = 1
  FaultKinds = {"crash", "stall", "db"}
INVARIANTS AttemptsDoNotMix MirrorIsFenced
PROPERTIES TurnsEnd
CHECK_DEADLOCK FALSE
