SPECIFICATION FairSpec
CONSTANTS
  Loop = Loop
  NoTask = NoTask
  Jobs = {j1, j2}
  MaxFailures = 2
  MaxTurns = 1
  KeepLogs = 2
  IterationCap = 2
INVARIANTS
  LockAndGateAreExact
PROPERTIES
  ImplementsCycleLog
  TriggersAreServed
  HeartbeatContinues
