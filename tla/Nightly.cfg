SPECIFICATION Spec
CONSTANTS
    Loop = Loop
    Dash = Dash
    t1 = t1
    Tasks = {t1}
    MaxUpdates = 1
    MaxPipelines = 2
    MaxSearches = 2
    MaxSecond = 2
CHECK_DEADLOCK FALSE
INVARIANTS
  SchedulerIsExact
  PublishesWhatWasProved
  BranchesAreOnesOwn
PROPERTIES
  NightlyGoesOn
