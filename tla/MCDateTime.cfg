SPECIFICATION Spec
CONSTANTS
  Starts <- Edges
  Amounts <- Steps
  MaxSteps = 2
INVARIANTS KeepsTime OrderAgrees BetweenInYear
CHECK_DEADLOCK FALSE
