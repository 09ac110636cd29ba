SPECIFICATION MCSpec
CONSTANTS
  MaxIterations = 3
  MaxEvents = 8
INVARIANTS ResultsPaired BudgetRespected CallsAnsweredInOrder
CHECK_DEADLOCK FALSE
