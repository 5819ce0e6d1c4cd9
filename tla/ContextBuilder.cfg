\* Five files around both caps, with the marker longer than the difference.
SPECIFICATION Spec
CONSTANTS
  NumFiles = 5
  Sizes = {0, 1, 4, 5, 6, 9}
  PerFileCap = 5
  TotalCap = 7
  LearningsCap = 4
  Marker = 3
INVARIANT BudgetKept
CHECK_DEADLOCK FALSE
