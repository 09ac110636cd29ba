SPECIFICATION FairSpec
CONSTANTS
  Workers = {w1, w2}
  Jobs = {j1, j2}
  Concurrency = 1
  MaxAttempts = 2
  MaxStops = 1
  MaxFaults = 1
  MaxEvents = 3
INVARIANTS PromptPickup 
PROPERTIES NoWorkAfterStop JobsEnd StopsEnd
CHECK_DEADLOCK FALSE
