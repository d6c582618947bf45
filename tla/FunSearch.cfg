CONSTANTS
  NumIslands = 2
  Capacity = 2
  EliteCount = 2
  Seed = 1
  Candidates <- MCCandidates
  MaxEvals = 2
  Evals <- MCEvals
  MaxAccepted = 3
  MaxStarts = 2
  MaxMigrations = 1
  MaxErrors = 1
SPECIFICATION Spec
CHECK_DEADLOCK FALSE
INVARIANTS
  ChampionIsTheBest
  SameIdSameHeuristic
  EliteArrives
PROPERTIES
  FitnessAccumulates
  MigrantsAreSavedTogether
