SPECIFICATION Spec
CONSTANTS
  Slots = {s1, s2}
  MaxAttempts = 2
  MaxMessages = 1
  MaxOutput = 2
  Anonymous = {2}
  MaxFaults = 1
  FaultKinds = {"crash", "db"}
SYMMETRY Symmetry
INVARIANTS CallsSettledOnce CommitIsWhole
CHECK_DEADLOCK FALSE
