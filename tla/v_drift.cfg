SPECIFICATION Spec
CONSTANTS
  Positions <- MCPositions
  Statuses = {"online", "busy"}
  Step = 10
  MaxDeltas = 3
  Null = Null
INVARIANT NoAccumulation
CHECK_DEADLOCK FALSE
