SPECIFICATION FairSpec
CONSTANTS
  Slots = {s1, s2}
  MaxAttempts = 2
  MaxIterations = 1
  MaxMessages = 1
  MaxCrashes = 1
  MaxStalls = 0
  MaxDbErrors = 1
  StartReady = FALSE
  FreshBoxes = TRUE
CHECK_DEADLOCK FALSE
INVARIANTS ProvisionedOnce NoCommandTwice
PROPERTIES ProvisioningEnds
