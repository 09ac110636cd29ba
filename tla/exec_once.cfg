SPECIFICATION FairSpec
CONSTANTS
  Callers = {c1, c2}
  Drivers = {"subprocess", "computesdk"}
  MaxOut = 2
  Cap = 1
  CharBytes = 1
  Daemons = TRUE
  MaxCrashes = 1
  MaxFaults = 1
  MaxOutages = 1
CHECK_DEADLOCK FALSE
INVARIANTS RunsOnce WholeResult
PROPERTIES KeepsPromise CallsEnd
