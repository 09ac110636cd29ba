SPECIFICATION FairSpec
CONSTANTS
  Slots = {s1, s2}
  MaxAttempts = 2
  MaxIterations = 2
  MaxMessages = 2
  MaxCrashes = 2
  MaxStalls = 0
  MaxDbErrors = 0
  StartReady = TRUE
  FreshBoxes = FALSE
CHECK_DEADLOCK FALSE
INVARIANTS OneDriver OpenTurnHasJob TurnSeesItsMessage RequestsAnswerCalls
PROPERTIES MessagesBetweenTurns TurnsEnd
