SPECIFICATION Spec
CONSTANTS
  MaxRuns = 3
CHECK_DEADLOCK FALSE
INVARIANTS
  DatabaseIsSafe
  OutcomesAreTrue
PROPERTIES
  ReplacesOnly
